---- MODULE Spec2Model ----
(***************************************************************************)
(* A model of run_gpu.c: Llama-2 inference whose forward pass runs as      *)
(* OpenGL ES compute dispatches.                                           *)
(*                                                                         *)
(* The GPU memory is modelled element by element.  An element carries      *)
(*   v   its numeric value (kept only in numeric runs, see `numeric`),     *)
(*   d   TRUE iff the value is a function of the program's inputs alone    *)
(*       (FALSE: it stems from a never-written element, an out-of-bounds   *)
(*       read or a write race),                                            *)
(*   p   the position (step) at which it was last written, Never if never, *)
(*   l   the layer in which it was last written,                           *)
(*   by  the compute program (or host call) that wrote it.                 *)
(* Every glDispatchCompute of the source is one action; the host code      *)
(* around it (bindings, uniforms, loop bookkeeping) is part of the action. *)
(***************************************************************************)
EXTENDS Integers, Sequences, FiniteSets, TLC

VARIABLES
    pc,            \* where main() is
    site,          \* which call of the token step is running
    sub,           \* the phase inside a composite (rmsnorm, softmax, ...)
    config,        \* Config, as read from the checkpoint
    seed,          \* rng_seed after argument parsing
    temperature,   \* "zero" (0.0f) or "pos" (any other value)
    topp,          \* "off" (<= 0) or "on"
    reqSteps,      \* the value of -n after argument parsing
    prompt,        \* the -i string as a sequence of bytes, or NoPrompt
    steps, pos, token, next,
    prompt_tokens, num_prompt_tokens,
    out,           \* the token strings printed to stdout, in order
    exitStatus,    \* NoExit while running, else the status
    fault,         \* the hard failure met, "none" if none
    l,             \* the layer index of transformer()
    currentStepSize, nextStepSize,
    currentBuffer, nextBuffer, resBuffer_max,
    currentBuffer_i, nextBuffer_i,
    stepSizes,     \* history: the step sizes of the running reduction loop
    fwdPos,        \* history: the pos arguments of the transformer() calls
    mem,           \* GPU buffers: name -> index -> element
    bound,         \* GL state: storage binding index -> buffer name
    sq_insize,     \* GL state: uniform insize of shader_rmsnorm_squares_and_sum
    lastProg, lastGrid, lastReads, lastWrites,   \* the last dispatch
    unsynced,      \* GL state: the buffers shaders wrote since the last barrier
    tile,          \* the values a reduction run starts from, row by row
    decision,      \* history: the elements the last token decision read
    numeric,       \* TRUE in runs that track values, FALSE in runs that track data flow
    junk,          \* the value an undefined read yields in a numeric run
    ctxOK,         \* whether create_GPUContext made a context current
    kvCopies,      \* whether glCopyBufferSubData, handed buffer names, copies
    lastLoop,      \* history: the step sizes of the last finished reduction loop
    rng_calls,     \* how often random_u32 ran
    draw,          \* what random_f32 returns in a numeric run, in units of 1/Den
    toppNum,       \* the -p value of a numeric run, in units of 1/Den
    programs,      \* GPUProgram: the programs whose handle is not 0
    created,       \* the buffers glGenBuffers/glBufferData have created
    deleted        \* the buffers handed to glDeleteBuffers, in order

vars == <<pc, site, sub, config, seed, temperature, topp, reqSteps, prompt,
          steps, pos, token, next, prompt_tokens, num_prompt_tokens, out,
          exitStatus, fault, l, currentStepSize, nextStepSize, currentBuffer,
          nextBuffer, resBuffer_max, currentBuffer_i, nextBuffer_i, stepSizes,
          fwdPos, mem, bound, sq_insize, lastProg, lastGrid, lastReads,
          lastWrites, decision, numeric, junk, ctxOK, kvCopies, lastLoop,
          rng_calls, draw, toppNum, programs, created, deleted, unsynced,
          tile>>

-----------------------------------------------------------------------------
(* Bounds of the model *)

MaxSeqLen == 3      \* largest seq_len of a checkpoint
MaxReq == 4         \* largest -n value tried
MaxN == 5           \* largest vector length of the kernel runs
MaxVal == 2         \* largest input value of the numeric runs
Den == 4            \* the sampling runs count probabilities in units of 1/Den
MaxProbs == 3       \* largest vocab_size of the sampling runs

(* Program constants *)

BOS == 1
SizeofFloat == 4
Never == 0 - 1
NoExit == 0 - 1
NoToken == 0 - 1
NoPrompt == <<"none">>

Max2(a, b) == IF a >= b THEN a ELSE b

-----------------------------------------------------------------------------
(* Buffers *)

Activations == {"x", "xb", "xb2", "hb", "hb2", "q", "k", "v", "att", "logits"}
Caches == {"key_cache", "value_cache"}
Scratch == {"mulBuffer_1", "mulBuffer_2", "mulBuffer_3", "mulBuffer_4"}
RunStateBufs == Activations \cup Caches \cup Scratch
WeightBufs == {"rms_att_weight", "rms_ffn_weight", "wq", "wk", "wv", "wo",
               "w1", "w2", "w3", "rms_final_weight", "freq_cis_real",
               "freq_cis_imag", "wcls"}

head_size_of(p) == p.dim \div p.n_heads

\* malloc_run_state: mulBuffer_len is a byte count; vocab_size (a count of
\* floats) is compared with it and, when larger, stored as the byte count.
mulBuffer_len(p) ==
    LET bytes == p.dim * p.seq_len * SizeofFloat
    IN  IF p.vocab_size > bytes THEN p.vocab_size ELSE bytes

\* malloc_run_state: the length of each buffer in floats
buffer_len(p, b) ==
    CASE b \in {"x", "xb", "xb2", "q", "k", "v"} -> p.dim
      [] b \in {"hb", "hb2"} -> p.hidden_dim
      [] b = "att" -> p.n_heads * p.seq_len
      [] b = "logits" -> p.vocab_size
      [] b \in Caches -> p.n_layers * p.seq_len * p.dim
      [] b \in Scratch -> mulBuffer_len(p) \div SizeofFloat

\* upload_weights: the length of each weight buffer in floats
weight_len(p, b) ==
    CASE b \in {"rms_att_weight", "rms_ffn_weight"} -> p.n_layers * p.dim
      [] b \in {"wq", "wk", "wv", "wo"} -> p.n_layers * p.dim * p.dim
      [] b \in {"w1", "w2", "w3"} -> p.n_layers * p.dim * p.hidden_dim
      [] b = "rms_final_weight" -> p.dim
      [] b \in {"freq_cis_real", "freq_cis_imag"} -> (p.seq_len * head_size_of(p)) \div 2
      [] b = "wcls" -> p.dim * p.vocab_size

\* glBufferData(..., NULL, ...): the contents of a fresh buffer are undefined
FreshEl(val) == [v |-> val, d |-> FALSE, p |-> Never, l |-> Never, by |-> "none"]
\* an element of an uploaded weight buffer
WeightEl == [v |-> 1, d |-> TRUE, p |-> Never, l |-> Never, by |-> "upload"]
\* what a read outside a buffer yields
UndefEl == [v |-> junk, d |-> FALSE, p |-> Never, l |-> Never, by |-> "none"]

ReadEl(b, i) ==
    IF b \in WeightBufs
    THEN IF i >= 0 /\ i < weight_len(config, b) THEN WeightEl ELSE UndefEl
    ELSE IF b \in DOMAIN mem /\ i \in DOMAIN mem[b] THEN mem[b][i] ELSE UndefEl

InBounds(b, i) ==
    IF b \in WeightBufs THEN i >= 0 /\ i < weight_len(config, b)
    ELSE b \in DOMAIN mem /\ i \in DOMAIN mem[b]

-----------------------------------------------------------------------------
(* The compute shaders.  Each operator gives, for one invocation           *)
(* (gl_GlobalInvocationID = gx, gy, gz) under uniforms u, the stores it    *)
(* makes: wb/wi the binding and index stored to, rd the loads <<binding,   *)
(* index>> the stored value is computed from, dead the loads it makes but  *)
(* does not use, op how the value is computed, k a constant operand.       *)

U0 == [insize |-> 0, shape0 |-> 0, n |-> 0, x_offset |-> 0, w_offset |-> 0,
       size |-> 0, weight_offset |-> 0, seq_len |-> 0, pos |-> 0,
       head_size |-> 0, dim |-> 0, layer_idx |-> 0, freq_cis_idx_delta |-> 0]

St(wb, wi, rd, op) == [wb |-> wb, wi |-> wi, rd |-> rd, dead |-> <<>>, op |-> op, k |-> 0]

\* the loads of a pairwise reducer: element 2*idx of row idy, and its odd
\* sibling when the guard holds
Pair(base, guard) ==
    IF guard THEN << <<0, base>>, <<0, base + 1>> >> ELSE << <<0, base>> >>

shader_matmul(u, gx, gy, gz) ==
    { St(2, gx,
         [j \in 1..(2 * u.n) |->
             IF j % 2 = 1 THEN <<1, gx * u.n + ((j - 1) \div 2) + u.w_offset>>
                          ELSE <<0, ((j - 1) \div 2) + u.x_offset>>],
         "dot") }

shader_rmsnorm_squares_and_sum(u, gx, gy, gz) ==
    { St(1, gx, Pair(gx * 2, gx * 2 + 1 < u.insize), "sqsum") }

\* a variant: the sums are stored through binding 1, the block of the maxima
shader_softmax_exp_and_sum_b1(u, gx, gy, gz) ==
    LET i0 == gx * 2 + u.insize * gy
        i1 == i0 + 1
    IN  { St(1, gx + u.shape0 * gy,
             << <<1, 0>> >> \o Pair(i0, i1 < u.insize), "expsum") }

shader_softmax_exp_and_sum(u, gx, gy, gz) ==
    LET i0 == gx * 2 + u.insize * gy
        i1 == i0 + 1
    IN  { St(2, gx + u.shape0 * gy,
             << <<1, 0>> >> \o Pair(i0, i1 < u.insize), "expsum") }

shader_softmax_normalize(u, gx, gy, gz) ==
    { [St(2, gx + u.shape0 * gy,
          << <<2, gx + u.shape0 * gy>>, <<0, 0>> >>, "div")
       EXCEPT !.dead = << <<1, 0>> >>] }

\* a variant: the odd sibling is added without the guard
shader_sum_unguarded(u, gx, gy, gz) ==
    { St(1, gx + u.shape0 * gy, Pair(u.insize * gy + gx * 2, TRUE), "sum") }

shader_sum(u, gx, gy, gz) ==
    { St(1, gx + u.shape0 * gy,
         Pair(u.insize * gy + gx * 2, gx * 2 + 1 < u.insize), "sum") }

shader_max(u, gx, gy, gz) ==
    { St(1, gx + u.shape0 * gy,
         Pair(u.insize * gy + gx * 2, gx * 2 + 1 < u.insize), "max") }

shader_argmax_set_index(u, gx, gy, gz) ==
    { [St(1, gx + u.insize * gy, <<>>, "const") EXCEPT !.k = gx] }

shader_rmsnorm_normalize_and_scale(u, gx, gy, gz) ==
    { St(3, gx, << <<0, 0>>, <<1, gx + u.weight_offset>>, <<2, gx>> >>, "scale") }

shader_rmsnorm_normalize_and_scale_currentPos(u, gx, gy, gz) ==
    { St(2, gx, << <<0, 0>>, <<1, gx + u.weight_offset>>, <<2, gx>> >>, "scale") }

shader_accum(u, gx, gy, gz) ==
    { St(0, gx, << <<0, gx>>, <<1, gx>> >>, "sum") }

shader_positionalEncoding(u, gx, gy, gz) ==
    LET i == gx * 2
        f == u.freq_cis_idx_delta + ((i % u.head_size) \div 2)
        from(b) == << <<b, i>>, <<b, i + 1>>, <<0, f>>, <<1, f>> >>
    IN  { St(2, i, from(2), "rot0"), St(2, i + 1, from(2), "rot1"),
          St(3, i, from(3), "rot0"), St(3, i + 1, from(3), "rot1") }

\* both blocks, hb and hb2, are declared at binding 0
shader_transformer_silu_and_mulW3(u, gx, gy, gz) ==
    { St(0, gx, << <<0, gx>>, <<0, gx>> >>, "silu") }

shader_transformer_get_query_vector(u, gx, gy, gz) ==
    LET h == gx
        t == gy
        loff == u.layer_idx * u.seq_len * u.dim
        q_offset == h * u.head_size
        att_offset == h * u.seq_len
        k_offset == loff + t * u.dim + h * u.head_size
    IN  { St(2, t + att_offset,
             [j \in 1..(2 * u.head_size) |->
                 IF j % 2 = 1 THEN <<0, ((j - 1) \div 2) + q_offset>>
                              ELSE <<1, ((j - 1) \div 2) + k_offset>>],
             "dot") }

shader_transformer_build_attMat(u, gx, gy, gz) ==
    LET h == gx
        i == gy
        t == gz
        loff == u.layer_idx * u.seq_len * u.dim
        att_offset == h * u.seq_len
        v_offset == loff + t * u.dim + h * u.head_size
    IN  { St(2, h * u.pos * u.head_size + i * u.pos + t,
             << <<1, t + att_offset>>, <<0, i + v_offset>> >>, "mul") }

shader_transformer_softmax_input(u, gx, gy, gz) ==
    { St(1, gx * (u.pos + 1) + gy, << <<0, gx * u.seq_len + gy>> >>, "copy") }

shader_transformer_softmax_output(u, gx, gy, gz) ==
    { St(1, gx * u.seq_len + gy, << <<0, gx * (u.pos + 1) + gy>> >>, "copy") }

shader_temperature(u, gx, gy, gz) ==
    { St(0, gx, << <<0, gx>> >>, "temp") }

Shader(prog, u, gx, gy, gz) ==
    CASE prog = "shader_matmul" -> shader_matmul(u, gx, gy, gz)
      [] prog = "shader_rmsnorm_squares_and_sum" -> shader_rmsnorm_squares_and_sum(u, gx, gy, gz)
      [] prog = "shader_softmax_exp_and_sum" -> shader_softmax_exp_and_sum(u, gx, gy, gz)
      [] prog = "shader_softmax_normalize" -> shader_softmax_normalize(u, gx, gy, gz)
      [] prog = "shader_sum" -> shader_sum(u, gx, gy, gz)
      [] prog = "shader_max" -> shader_max(u, gx, gy, gz)
      [] prog = "shader_argmax_set_index" -> shader_argmax_set_index(u, gx, gy, gz)
      [] prog = "shader_rmsnorm_normalize_and_scale" -> shader_rmsnorm_normalize_and_scale(u, gx, gy, gz)
      [] prog = "shader_rmsnorm_normalize_and_scale_currentPos" -> shader_rmsnorm_normalize_and_scale_currentPos(u, gx, gy, gz)
      [] prog = "shader_accum" -> shader_accum(u, gx, gy, gz)
      [] prog = "shader_positionalEncoding" -> shader_positionalEncoding(u, gx, gy, gz)
      [] prog = "shader_transformer_silu_and_mulW3" -> shader_transformer_silu_and_mulW3(u, gx, gy, gz)
      [] prog = "shader_transformer_get_query_vector" -> shader_transformer_get_query_vector(u, gx, gy, gz)
      [] prog = "shader_transformer_build_attMat" -> shader_transformer_build_attMat(u, gx, gy, gz)
      [] prog = "shader_transformer_softmax_input" -> shader_transformer_softmax_input(u, gx, gy, gz)
      [] prog = "shader_transformer_softmax_output" -> shader_transformer_softmax_output(u, gx, gy, gz)
      [] prog = "shader_temperature" -> shader_temperature(u, gx, gy, gz)

-----------------------------------------------------------------------------
(* Executing a dispatch *)

RECURSIVE SumSeq(_)
SumSeq(s) == IF s = <<>> THEN 0 ELSE Head(s) + SumSeq(Tail(s))

RECURSIVE MaxSeq(_)
MaxSeq(s) == IF Len(s) = 1 THEN Head(s) ELSE Max2(Head(s), MaxSeq(Tail(s)))

\* The value a store computes from the values vs it loaded.  Only the
\* kernels whose arithmetic is exact on integers are evaluated; the other
\* kernels run in data-flow runs only, where v is not tracked.
Op(op, vs, k) ==
    CASE op = "sum" -> SumSeq(vs)
      [] op = "max" -> MaxSeq(vs)
      [] op = "sqsum" -> SumSeq([j \in 1..Len(vs) |-> vs[j] * vs[j]])
      [] op = "const" -> k
      [] op = "copy" -> vs[1]
      [] op = "mul" -> vs[1] * vs[2]
      [] op = "dot" -> SumSeq([j \in 1..(Len(vs) \div 2) |-> vs[2 * j - 1] * vs[2 * j]])
      [] OTHER -> 0

\* a variant: the calls bind the generic target, not an index, so that
\* every index holds the buffer of the last call
glBindBuffer_generic(bnd, cmds) ==
    IF cmds = <<>> THEN bnd ELSE [i \in DOMAIN bnd |-> cmds[Len(cmds)][2]]

\* glBindBufferBase calls, in order: the last call for an index wins
RECURSIVE glBindBufferBase(_, _)
glBindBufferBase(bnd, cmds) ==
    IF cmds = <<>> THEN bnd
    ELSE glBindBufferBase([bnd EXCEPT ![Head(cmds)[1]] = Head(cmds)[2]], Tail(cmds))

\* the invocations of glDispatchCompute(gx, gy, gz); none if a count is 0
Grid(gx, gy, gz) == (0..(gx - 1)) \X (0..(gy - 1)) \X (0..(gz - 1))

\* the stores of a whole dispatch, each with the invocation that makes it
Stores(prog, u, gx, gy, gz) ==
    UNION { { [s |-> st, g |-> g] : st \in Shader(prog, u, g[1], g[2], g[3]) } :
            g \in Grid(gx, gy, gz) }

\* the element a store writes: its value from the loaded values; it is
\* determined (d) iff every load is in bounds, determined, and not of an
\* element another invocation of the same dispatch stores to
StoreEl(a, A, B, prog, ptag, ltag) ==
    LET rd == a.s.rd
        els == [j \in 1..Len(rd) |-> ReadEl(B[rd[j][1]], rd[j][2])]
        hazard(j) == \E o \in A : /\ o.g # a.g
                                  /\ B[o.s.wb] = B[rd[j][1]]
                                  /\ o.s.wi = rd[j][2]
    IN  [v |-> IF numeric THEN Op(a.s.op, [j \in 1..Len(rd) |-> els[j].v], a.s.k) ELSE 0,
         d |-> \A j \in 1..Len(rd) : els[j].d /\ ~hazard(j),
         p |-> ptag, l |-> ltag, by |-> prog]

\* several invocations storing to one element: one of the values stays,
\* which one is not determined
RaceEl(W, A, B, prog, ptag, ltag) ==
    LET vals == { StoreEl(a, A, B, prog, ptag, ltag).v : a \in W }
        lo == CHOOSE x \in vals : \A y \in vals : x <= y
        hi == CHOOSE x \in vals : \A y \in vals : x >= y
    IN  [v |-> IF junk = 0 THEN lo ELSE hi, d |-> FALSE,
         p |-> ptag, l |-> ltag, by |-> prog]

MemAfter(A, B, prog, ptag, ltag) ==
    [b \in DOMAIN mem |->
        [i \in DOMAIN mem[b] |->
            LET W == { a \in A : B[a.s.wb] = b /\ a.s.wi = i }
            IN  IF W = {} THEN mem[b][i]
                ELSE IF Cardinality(W) = 1
                     THEN StoreEl(CHOOSE a \in W : TRUE, A, B, prog, ptag, ltag)
                     ELSE RaceEl(W, A, B, prog, ptag, ltag)]]

LoadsOf(A, B) ==
    UNION { { [b |-> B[r[1]], i |-> r[2], e |-> ReadEl(B[r[1]], r[2]),
               ok |-> InBounds(B[r[1]], r[2])] :
              r \in { a.s.rd[j] : j \in 1..Len(a.s.rd) } \cup
                    { a.s.dead[j] : j \in 1..Len(a.s.dead) } } : a \in A }

StoresOf(A, B) ==
    { [b |-> B[a.s.wb], i |-> a.s.wi, ok |-> InBounds(B[a.s.wb], a.s.wi)] : a \in A }

\* a variant: no barrier, the shader writes stay pending
glMemoryBarrierNone(pending) == pending

\* glMemoryBarrier(GL_SHADER_STORAGE_BARRIER_BIT): the shader writes pending
\* before the call are visible to the shader loads after it; what is left
\* pending
glMemoryBarrier(pending) == {}

\* glBindBufferBase(cmds); glUseProgram(prog); glUniform*(u);
\* glDispatchCompute(gx, gy, gz); glMemoryBarrier(...).  Without a current
\* context every GL call fails and nothing changes.
glDispatchCompute(cmds, prog, u, gx, gy, gz) ==
    LET B == glBindBufferBase(bound, cmds)
        A == Stores(prog, u, gx, gy, gz)
    IN  IF ctxOK
        THEN /\ bound' = B
             /\ mem' = MemAfter(A, B, prog, pos, l)
             /\ lastProg' = prog
             /\ lastGrid' = <<gx, gy, gz>>
             /\ lastReads' = LoadsOf(A, B)
             /\ lastWrites' = StoresOf(A, B)
             /\ unsynced' = glMemoryBarrier(unsynced \cup { w.b : w \in StoresOf(A, B) })
        ELSE UNCHANGED <<bound, mem, lastProg, lastGrid, lastReads, lastWrites,
                         unsynced>>

-----------------------------------------------------------------------------
(* Host code shared by the reductions *)

inputs == <<seed, temperature, topp, reqSteps, prompt, numeric, junk, kvCopies,
           draw, toppNum, tile>>
setup == <<config, steps, prompt_tokens, num_prompt_tokens, ctxOK>>
loopv == <<pos, token, next, out, fwdPos, decision, rng_calls>>
redv == <<currentStepSize, nextStepSize, currentBuffer, nextBuffer,
          resBuffer_max, currentBuffer_i, nextBuffer_i, stepSizes, lastLoop>>
glv == <<mem, bound, lastProg, lastGrid, lastReads, lastWrites, unsynced>>
gpures == <<programs, created, deleted>>

\* a variant: halving that rounds down
NextStepFloor(cur) == cur \div 2

\* nextStepSize = currentStepSize / 2; if (currentStepSize % 2 == 1) nextStepSize += 1;
NextStep(cur) == (cur \div 2) + (IF cur % 2 = 1 THEN 1 ELSE 0)

\* shader_argmax does not compile (statements without ';', float results
\* assigned to int), so createComputeProgram leaves its handle 0
Compiles(prog) == prog # "shader_argmax"

\* the fields of GPUProgram
Programs ==
    {"shader_matmul", "shader_rmsnorm_squares_and_sum", "shader_sum",
     "shader_rmsnorm_normalize_and_scale",
     "shader_rmsnorm_normalize_and_scale_currentPos", "shader_accum",
     "shader_positionalEncoding", "shader_max", "shader_min",
     "shader_softmax_exp_and_sum", "shader_softmax_normalize",
     "shader_transformer_silu_and_mulW3", "shader_transformer_get_query_vector",
     "shader_transformer_build_attMat", "shader_transformer_softmax_input",
     "shader_transformer_softmax_output", "shader_temperature",
     "shader_argmax_set_index", "shader_argmax"}

\* the location of a uniform: <<>> stands for -1
glGetUniformLocation(prog, name) == IF Compiles(prog) THEN <<prog, name>> ELSE <<>>

\* glUniform1i on the program in use: location -1 is ignored, a location of
\* another program sets nothing; old is the uniform's value before the call
glUniform1i(inUse, loc, val, old) ==
    IF loc # <<>> /\ loc[1] = inUse THEN val ELSE old

-----------------------------------------------------------------------------
(* argmax *)

argmax_set_index ==
    /\ pc = "step" /\ site = "argmax" /\ sub = "idx"
    /\ LET n == config.vocab_size
       IN  /\ currentStepSize' = n
           /\ nextStepSize' = n \div 2
           /\ stepSizes' = <<n>>
           /\ glDispatchCompute(<< <<0, "logits">>, <<1, "mulBuffer_2">> >>,
                                "shader_argmax_set_index",
                                [U0 EXCEPT !.insize = n], n, 1, 1)
    /\ currentBuffer' = "mulBuffer_1"
    /\ currentBuffer_i' = "mulBuffer_2"
    /\ nextBuffer' = "mulBuffer_3"
    /\ nextBuffer_i' = "mulBuffer_4"
    /\ sub' = "first"
    /\ UNCHANGED <<inputs, gpures, setup, loopv, pc, site, exitStatus, fault, l,
                   resBuffer_max, lastLoop, sq_insize>>

\* the "first step": the program in use is shader_rmsnorm_squares_and_sum,
\* the uniform locations are looked up in shader_argmax
argmax_first ==
    /\ pc = "step" /\ site = "argmax" /\ sub = "first"
    /\ LET nxt == nextStepSize + (IF currentStepSize % 2 = 1 THEN 1 ELSE 0)
           insz == glUniform1i("shader_rmsnorm_squares_and_sum",
                               glGetUniformLocation("shader_argmax", "insize"),
                               currentStepSize, sq_insize)
       IN  /\ nextStepSize' = nxt
           /\ stepSizes' = Append(stepSizes, nxt)
           /\ sq_insize' = insz
           /\ glDispatchCompute(<< <<0, "logits">>, <<1, currentBuffer_i>>,
                                   <<2, nextBuffer>>, <<3, nextBuffer_i>> >>,
                                "shader_rmsnorm_squares_and_sum",
                                [U0 EXCEPT !.insize = insz], nxt, 1, 1)
    /\ sub' = "loop"
    /\ UNCHANGED <<inputs, gpures, setup, loopv, pc, site, exitStatus, fault, l,
                   currentStepSize, currentBuffer, nextBuffer, resBuffer_max,
                   currentBuffer_i, nextBuffer_i, lastLoop>>

\* one pass of while (nextStepSize != 1)
argmax_pass ==
    /\ pc = "step" /\ site = "argmax" /\ sub = "loop"
    /\ nextStepSize # 1
    /\ LET cur == nextStepSize
           nxt == NextStep(cur)
           insz == glUniform1i("shader_rmsnorm_squares_and_sum",
                               glGetUniformLocation("shader_argmax", "insize"),
                               cur, sq_insize)
       IN  /\ currentStepSize' = cur
           /\ nextStepSize' = nxt
           /\ stepSizes' = Append(stepSizes, nxt)
           /\ sq_insize' = insz
           /\ currentBuffer_i' = nextBuffer_i
           /\ nextBuffer_i' = currentBuffer_i
           /\ currentBuffer' = nextBuffer
           /\ nextBuffer' = currentBuffer
           /\ glDispatchCompute(<< <<0, nextBuffer>>, <<1, nextBuffer_i>>,
                                   <<2, currentBuffer>>, <<3, currentBuffer_i>> >>,
                                "shader_rmsnorm_squares_and_sum",
                                [U0 EXCEPT !.insize = insz], nxt, 1, 1)
    /\ UNCHANGED <<inputs, gpures, setup, loopv, pc, site, sub, exitStatus, fault, l,
                   resBuffer_max, lastLoop>>

\* the token ids a run that tracks no values may read back: vocab_size
\* stands for every value that is no index of the vocabulary
AnyInt == 0..config.vocab_size

\* the loop exit and the readback: res = pOut[0] of nextBuffer_i, -1 if the
\* mapping failed
argmax_result ==
    /\ pc = "step" /\ site = "argmax" /\ sub = "loop"
    /\ nextStepSize = 1
    /\ LET e == ReadEl(nextBuffer_i, 0)
           mapped == ctxOK /\ InBounds(nextBuffer_i, 0)
       IN  /\ next' \in (IF ~mapped THEN {0 - 1}
                         ELSE IF numeric THEN {e.v} ELSE AnyInt)
           /\ decision' = IF mapped THEN {[b |-> nextBuffer_i, i |-> 0, e |-> e]} ELSE {}
    /\ lastLoop' = stepSizes
    /\ site' = "advance"
    /\ sub' = "none"
    /\ UNCHANGED <<inputs, gpures, setup, pos, token, out, fwdPos, rng_calls, pc,
                   exitStatus, fault, l, currentStepSize, nextStepSize,
                   currentBuffer, nextBuffer, resBuffer_max, currentBuffer_i,
                   nextBuffer_i, stepSizes, glv, sq_insize>>

-----------------------------------------------------------------------------
(* The calls of one token step, in the order transformer() and main() make  *)
(* them                                                                     *)

RmsSites == {"rms_att", "rms_ffn", "rms_final"}
SoftmaxSites == {"tsm", "softmax_logits"}

\* the phase in which a call starts
EntrySub(s) ==
    CASE s \in RmsSites -> "sq"
      [] s = "tsm" -> "in"
      [] s = "softmax_logits" -> "max0"
      [] s = "tsum" -> "t0"
      [] s = "argmax" -> "idx"
      [] OTHER -> "none"

\* the call after call s inside a layer
After(s) ==
    CASE s = "rms_att" -> "mm_q"
      [] s = "mm_q" -> "mm_k"
      [] s = "mm_k" -> "mm_v"
      [] s = "mm_v" -> "rope"
      [] s = "rope" -> "kv"
      [] s = "kv" -> "qk"
      [] s = "qk" -> "tsm"
      [] s = "tsm" -> "attmat"
      [] s = "attmat" -> "tsum"
      [] s = "tsum" -> "mm_o"
      [] s = "mm_o" -> "acc_att"
      [] s = "acc_att" -> "rms_ffn"
      [] s = "rms_ffn" -> "mm_w1"
      [] s = "mm_w1" -> "mm_w3"
      [] s = "mm_w3" -> "silu"
      [] s = "silu" -> "mm_w2"
      [] s = "mm_w2" -> "acc_ffn"
      [] s = "acc_ffn" -> IF l + 1 < config.n_layers THEN "rms_att" ELSE "rms_final"
      [] s = "rms_final" -> "mm_cls"
      [] s = "mm_cls" -> IF pos < num_prompt_tokens THEN "forced"
                         ELSE IF temperature = "zero" THEN "argmax"
                         ELSE "temperature"
      [] s = "temperature" -> "softmax_logits"
      [] s = "softmax_logits" -> IF topp = "off" THEN "sample" ELSE "sample_topp"

Goto(s) == site' = s /\ sub' = EntrySub(s)

\* the arguments of the rmsnorm calls of transformer()
RmsArgs ==
    CASE site = "rms_att" ->
           [o |-> "xb", x |-> "x", weight |-> "rms_att_weight",
            size |-> config.dim, weight_offset |-> l * config.dim]
      [] site = "rms_ffn" ->
           [o |-> "xb", x |-> "x", weight |-> "rms_ffn_weight",
            size |-> config.dim, weight_offset |-> l * config.dim]
      [] site = "rms_final" ->
           [o |-> "x", x |-> "x", weight |-> "rms_final_weight",
            size |-> config.dim, weight_offset |-> 0]

-----------------------------------------------------------------------------
(* rmsnorm *)

rmsnorm_squares_and_sum ==
    /\ pc = "step" /\ site \in RmsSites /\ sub = "sq"
    /\ LET a == RmsArgs
           nxt == NextStep(a.size)
       IN  /\ currentStepSize' = a.size
           /\ nextStepSize' = nxt
           /\ stepSizes' = <<a.size, nxt>>
           /\ sq_insize' = a.size
           /\ glDispatchCompute(<< <<0, a.x>>, <<1, "mulBuffer_2">> >>,
                                "shader_rmsnorm_squares_and_sum",
                                [U0 EXCEPT !.insize = a.size], nxt, 1, 1)
    /\ currentBuffer' = "mulBuffer_1"
    /\ nextBuffer' = "mulBuffer_2"
    /\ sub' = "sum"
    /\ UNCHANGED <<inputs, gpures, setup, loopv, pc, site, exitStatus, fault, l,
                   resBuffer_max, currentBuffer_i, nextBuffer_i, lastLoop>>

\* one pass of while (nextStepSize != 1)
rmsnorm_sum ==
    /\ pc = "step" /\ site \in RmsSites /\ sub = "sum"
    /\ nextStepSize # 1
    /\ LET cur == nextStepSize
           nxt == NextStep(cur)
       IN  /\ currentStepSize' = cur
           /\ nextStepSize' = nxt
           /\ stepSizes' = Append(stepSizes, nxt)
           /\ currentBuffer' = nextBuffer
           /\ nextBuffer' = currentBuffer
           /\ glDispatchCompute(<< <<0, nextBuffer>>, <<1, currentBuffer>> >>,
                                "shader_sum",
                                [U0 EXCEPT !.insize = cur, !.shape0 = nxt],
                                nxt, 1, 1)
    /\ UNCHANGED <<inputs, gpures, setup, loopv, pc, site, sub, exitStatus, fault, l,
                   resBuffer_max, currentBuffer_i, nextBuffer_i, lastLoop,
                   sq_insize>>

\* the loop exit and the scaling dispatch
rmsnorm_normalize_and_scale ==
    /\ pc = "step" /\ site \in RmsSites /\ sub = "sum"
    /\ nextStepSize = 1
    /\ LET a == RmsArgs
           u == [U0 EXCEPT !.size = a.size, !.weight_offset = a.weight_offset]
       IN  IF a.o = a.x
           THEN glDispatchCompute(<< <<0, nextBuffer>>, <<1, a.weight>>, <<2, a.x>> >>,
                                  "shader_rmsnorm_normalize_and_scale_currentPos",
                                  u, a.size, 1, 1)
           ELSE glDispatchCompute(<< <<0, nextBuffer>>, <<1, a.weight>>, <<2, a.x>>,
                                     <<3, a.o>> >>,
                                  "shader_rmsnorm_normalize_and_scale",
                                  u, a.size, 1, 1)
    /\ lastLoop' = stepSizes
    /\ Goto(After(site))
    /\ UNCHANGED <<inputs, gpures, setup, loopv, pc, exitStatus, fault, l,
                   currentStepSize, nextStepSize, currentBuffer, nextBuffer,
                   resBuffer_max, currentBuffer_i, nextBuffer_i, stepSizes,
                   sq_insize>>

-----------------------------------------------------------------------------
(* softmax *)

\* the arguments of the two softmax calls: from transformer_softmax (which
\* is itself called with pos + 1) and from main()
SoftmaxArgs ==
    IF site = "tsm"
    THEN [x |-> "mulBuffer_4", size_x |-> (pos + 1) + 1, size_y |-> config.n_heads]
    ELSE [x |-> "logits", size_x |-> config.vocab_size, size_y |-> 0]

\* one pass of do { ... } while (nextStepSize != 1); the first pass starts
\* from the locals' initial values
softmax_max ==
    /\ pc = "step" /\ site \in SoftmaxSites
    /\ \/ sub = "max0"
       \/ sub = "max" /\ nextStepSize # 1
    /\ LET a == SoftmaxArgs
           first == sub = "max0"
           c0 == IF first THEN "mulBuffer_1" ELSE currentBuffer
           n0 == IF first THEN "mulBuffer_2" ELSE nextBuffer
           cur == IF first THEN a.size_x ELSE nextStepSize
           nxt == NextStep(cur)
       IN  /\ currentBuffer' = n0
           /\ nextBuffer' = c0
           /\ currentStepSize' = cur
           /\ nextStepSize' = nxt
           /\ stepSizes' = IF first THEN <<cur, nxt>> ELSE Append(stepSizes, nxt)
           /\ glDispatchCompute(<< <<0, n0>>, <<1, c0>> >>, "shader_max",
                                [U0 EXCEPT !.insize = cur, !.shape0 = nxt],
                                nxt, a.size_y, 1)
    /\ sub' = "max"
    /\ UNCHANGED <<inputs, gpures, setup, loopv, pc, site, exitStatus, fault, l,
                   resBuffer_max, currentBuffer_i, nextBuffer_i, lastLoop,
                   sq_insize>>

\* the exit of the max loop and the exp-and-sum dispatch
softmax_exp_and_sum ==
    /\ pc = "step" /\ site \in SoftmaxSites /\ sub = "max"
    /\ nextStepSize = 1
    /\ LET a == SoftmaxArgs
           nxt == NextStep(a.size_x)
       IN  /\ resBuffer_max' = nextBuffer
           /\ currentStepSize' = a.size_x
           /\ nextStepSize' = nxt
           /\ stepSizes' = <<a.size_x, nxt>>
           /\ glDispatchCompute(<< <<0, a.x>>, <<1, nextBuffer>>,
                                   <<2, "mulBuffer_3">> >>,
                                "shader_softmax_exp_and_sum",
                                [U0 EXCEPT !.insize = a.size_x, !.shape0 = nxt],
                                nxt, a.size_y, 1)
    /\ nextBuffer' = "mulBuffer_3"
    /\ lastLoop' = stepSizes
    /\ sub' = "sum"
    /\ UNCHANGED <<inputs, gpures, setup, loopv, pc, site, exitStatus, fault, l,
                   currentBuffer, currentBuffer_i, nextBuffer_i, sq_insize>>

\* one pass of while (nextStepSize != 1)
softmax_sum ==
    /\ pc = "step" /\ site \in SoftmaxSites /\ sub = "sum"
    /\ nextStepSize # 1
    /\ LET a == SoftmaxArgs
           cur == nextStepSize
           nxt == NextStep(cur)
       IN  /\ currentStepSize' = cur
           /\ nextStepSize' = nxt
           /\ stepSizes' = Append(stepSizes, nxt)
           /\ currentBuffer' = nextBuffer
           /\ nextBuffer' = currentBuffer
           /\ glDispatchCompute(<< <<0, nextBuffer>>, <<1, currentBuffer>> >>,
                                "shader_sum",
                                [U0 EXCEPT !.insize = cur, !.shape0 = nxt],
                                nxt, a.size_y, 1)
    /\ UNCHANGED <<inputs, gpures, setup, loopv, pc, site, sub, exitStatus, fault, l,
                   resBuffer_max, currentBuffer_i, nextBuffer_i, lastLoop,
                   sq_insize>>

\* the exit of the sum loop and the normalize dispatch
softmax_normalize ==
    /\ pc = "step" /\ site \in SoftmaxSites /\ sub = "sum"
    /\ nextStepSize = 1
    /\ LET a == SoftmaxArgs
       IN  glDispatchCompute(<< <<0, nextBuffer>>, <<1, resBuffer_max>>, <<2, a.x>> >>,
                             "shader_softmax_normalize",
                             [U0 EXCEPT !.shape0 = a.size_x],
                             a.size_x, a.size_y, 1)
    /\ lastLoop' = stepSizes
    /\ IF site = "tsm"
       THEN site' = site /\ sub' = "out"
       ELSE Goto(After(site))
    /\ UNCHANGED <<inputs, gpures, setup, loopv, pc, exitStatus, fault, l,
                   currentStepSize, nextStepSize, currentBuffer, nextBuffer,
                   resBuffer_max, currentBuffer_i, nextBuffer_i, stepSizes,
                   sq_insize>>

-----------------------------------------------------------------------------
(* transformer_softmax, called as transformer_softmax(att, pos + 1, ...) *)

transformer_softmax_input ==
    /\ pc = "step" /\ site = "tsm" /\ sub = "in"
    /\ LET p1 == pos + 1
       IN  glDispatchCompute(<< <<0, "att">>, <<1, "mulBuffer_4">> >>,
                             "shader_transformer_softmax_input",
                             [U0 EXCEPT !.seq_len = config.seq_len, !.pos = p1],
                             p1 + 1, 1, 1)
    /\ sub' = "max0"
    /\ UNCHANGED <<inputs, gpures, setup, loopv, pc, site, exitStatus, fault, l, redv,
                   sq_insize>>

transformer_softmax_output ==
    /\ pc = "step" /\ site = "tsm" /\ sub = "out"
    /\ LET p1 == pos + 1
       IN  glDispatchCompute(<< <<0, "mulBuffer_4">>, <<1, "att">> >>,
                             "shader_transformer_softmax_output",
                             [U0 EXCEPT !.seq_len = config.seq_len, !.pos = p1],
                             p1 + 1, 1, 1)
    /\ Goto(After(site))
    /\ UNCHANGED <<inputs, gpures, setup, loopv, pc, exitStatus, fault, l, redv,
                   sq_insize>>

-----------------------------------------------------------------------------
(* transformer_sum, called as transformer_sum(xb, mulBuffer_4, pos + 1, ...) *)

\* one pass of while (nextStepSize != 1); the last pass writes to xb
transformer_sum_pass ==
    /\ pc = "step" /\ site = "tsum" /\ sub \in {"t0", "t"}
    /\ LET first == sub = "t0"
           c0 == IF first THEN "mulBuffer_1" ELSE currentBuffer
           n0 == IF first THEN "mulBuffer_4" ELSE nextBuffer
           cur == IF first THEN pos + 1 ELSE nextStepSize
           nxt == NextStep(cur)
       IN  /\ cur # 1
           /\ currentBuffer' = n0
           /\ nextBuffer' = c0
           /\ currentStepSize' = cur
           /\ nextStepSize' = nxt
           /\ stepSizes' = IF first THEN <<cur, nxt>> ELSE Append(stepSizes, nxt)
           /\ glDispatchCompute(<< <<0, n0>>, <<1, IF nxt = 1 THEN "xb" ELSE c0>> >>,
                                "shader_sum",
                                [U0 EXCEPT !.insize = cur, !.shape0 = nxt],
                                nxt, config.n_heads * head_size_of(config), 1)
    /\ sub' = "t"
    /\ UNCHANGED <<inputs, gpures, setup, loopv, pc, site, exitStatus, fault, l,
                   resBuffer_max, currentBuffer_i, nextBuffer_i, lastLoop,
                   sq_insize>>

\* the loop exit; with pos + 1 = 1 the loop makes no pass at all
transformer_sum_return ==
    /\ pc = "step" /\ site = "tsum" /\ sub \in {"t0", "t"}
    /\ LET first == sub = "t0"
           cur == IF first THEN pos + 1 ELSE nextStepSize
       IN  /\ cur = 1
           /\ currentStepSize' = IF first THEN 0 ELSE currentStepSize
           /\ nextStepSize' = cur
           /\ currentBuffer' = IF first THEN "mulBuffer_1" ELSE currentBuffer
           /\ nextBuffer' = IF first THEN "mulBuffer_4" ELSE nextBuffer
           /\ stepSizes' = IF first THEN <<cur>> ELSE stepSizes
           /\ lastLoop' = IF first THEN <<cur>> ELSE stepSizes
    /\ Goto(After(site))
    /\ UNCHANGED <<inputs, gpures, setup, loopv, pc, exitStatus, fault, l,
                   resBuffer_max, currentBuffer_i, nextBuffer_i, glv, sq_insize>>

-----------------------------------------------------------------------------
(* The files the program reads *)

Cfg(d, h, nl, n, sl) ==
    [dim |-> d, hidden_dim |-> d, n_layers |-> nl, n_heads |-> h,
     n_kv_heads |-> h, vocab_size |-> n, seq_len |-> sl]

\* tokenizer.bin: token id i is entry i + 1; a string is a sequence of bytes
tokenizer_bin ==
    << [str |-> <<"a">>, score |-> 0],
       [str |-> <<"<", "s", ">">>, score |-> 0],
       [str |-> <<" ">>, score |-> 0],
       [str |-> <<" ", "a">>, score |-> 1] >>

vocab(i) == tokenizer_bin[i + 1].str
vocab_scores(i) == tokenizer_bin[i + 1].score

\* the checkpoints tried: the Config header of the file
Checkpoints == { Cfg(4, 2, 2, Len(tokenizer_bin), sl) : sl \in 1..MaxSeqLen }

\* the -i strings tried: none, empty, one token, two bytes that merge, a
\* byte that is in no vocabulary entry
Prompts == { NoPrompt, <<>>, <<"a">>, <<" ", "a">>, <<"a", "z">> }

-----------------------------------------------------------------------------
(* bpe_encode *)

\* the first vocabulary entry equal to str, or -1
str_lookup(str) ==
    LET hits == { i \in 0..(config.vocab_size - 1) : vocab(i) = str }
    IN  IF hits = {} THEN 0 - 1 ELSE CHOOSE i \in hits : \A j \in hits : i <= j

\* the merge loop: merge the pair with the best score (the leftmost of the
\* best) until no pair is in the vocabulary
RECURSIVE bpe_merge(_)
bpe_merge(tokens) ==
    LET id(i) == str_lookup(vocab(tokens[i]) \o vocab(tokens[i + 1]))
        cand == { i \in 1..(Len(tokens) - 1) : id(i) # 0 - 1 }
        better(i, j) == \/ vocab_scores(id(i)) > vocab_scores(id(j))
                        \/ vocab_scores(id(i)) = vocab_scores(id(j)) /\ i <= j
        best_idx == CHOOSE i \in cand : \A j \in cand : better(i, j)
    IN  IF cand = {} THEN tokens
        ELSE bpe_merge([i \in 1..(Len(tokens) - 1) |->
                           IF i < best_idx THEN tokens[i]
                           ELSE IF i = best_idx THEN id(best_idx)
                           ELSE tokens[i + 1]])

\* the ids of the single bytes of text; -1 for a byte without an entry
bpe_bytes(text) == [i \in 1..Len(text) |-> str_lookup(<<text[i]>>)]

bpe_encode(text) == bpe_merge(bpe_bytes(text))

-----------------------------------------------------------------------------
(* main, up to the token loop *)

DefaultSteps == 256

Init ==
    /\ pc = "args"
    /\ site = "none"
    /\ sub = "none"
    /\ config = Cfg(0, 0, 0, 0, 0)
    /\ seed = 1
    /\ temperature = "pos"
    /\ topp = "on"
    /\ reqSteps = DefaultSteps
    /\ prompt = NoPrompt
    /\ steps = DefaultSteps
    /\ pos = 0
    /\ token = BOS
    /\ next = NoToken
    /\ prompt_tokens = <<>>
    /\ num_prompt_tokens = 0
    /\ out = <<>>
    /\ exitStatus = NoExit
    /\ fault = "none"
    /\ l = 0
    /\ currentStepSize = 0
    /\ nextStepSize = 0
    /\ currentBuffer = "mulBuffer_1"
    /\ nextBuffer = "mulBuffer_2"
    /\ resBuffer_max = "mulBuffer_1"
    /\ currentBuffer_i = "mulBuffer_2"
    /\ nextBuffer_i = "mulBuffer_4"
    /\ stepSizes = <<>>
    /\ lastLoop = <<>>
    /\ fwdPos = <<>>
    /\ mem = [b \in {} |-> <<>>]
    /\ bound = [i \in 0..3 |-> "none"]
    /\ sq_insize = 0
    /\ lastProg = "none"
    /\ lastGrid = <<0, 0, 0>>
    /\ lastReads = {}
    /\ lastWrites = {}
    /\ unsynced = {}
    /\ tile = <<>>
    /\ decision = {}
    /\ numeric = FALSE
    /\ junk = 0
    /\ ctxOK = FALSE
    /\ kvCopies \in BOOLEAN
    /\ rng_calls = 0
    /\ draw = 0
    /\ toppNum = 0
    /\ programs = {}
    /\ created = {}
    /\ deleted = <<>>

gpuv == <<l, redv, glv, sq_insize>>

\* a variant: a hard failure that ends the process with status 0
FailStatus0(f) == /\ fault' = f
                  /\ exitStatus' = 0
                  /\ pc' = "exit"

\* return 1 / exit(EXIT_FAILURE) on the hard failure f
Fail(f) == /\ fault' = f
           /\ exitStatus' = 1
           /\ pc' = "exit"

\* the argument loop: a malformed command line ends in error_usage();
\* otherwise the flags set temperature, topp, rng_seed, steps and prompt
parse_args ==
    /\ pc = "args"
    /\ \E wellformed \in BOOLEAN :
         IF wellformed
         THEN /\ temperature' \in {"zero", "pos"}
              /\ topp' \in {"off", "on"}
              /\ seed' \in {0, 1}
              /\ reqSteps' \in ((0 - 1)..MaxReq) \cup {DefaultSteps}
              /\ prompt' \in Prompts
              /\ pc' = "seed"
              /\ UNCHANGED <<fault, exitStatus>>
         ELSE /\ Fail("usage")
              /\ UNCHANGED <<temperature, topp, seed, reqSteps, prompt>>
    /\ UNCHANGED <<numeric, junk, kvCopies, draw, toppNum, tile, gpures, setup, loopv,
                   site, sub, gpuv>>

\* if (rng_seed == 0) return 1;
check_seed ==
    /\ pc = "seed"
    /\ IF seed = 0 THEN Fail("seed")
       ELSE pc' = "context" /\ UNCHANGED <<fault, exitStatus>>
    /\ UNCHANGED <<inputs, gpures, setup, loopv, site, sub, gpuv>>

\* create_GPUContext returns nothing: main goes on whether or not a
\* context was made current
create_GPUContext ==
    /\ pc = "context"
    /\ ctxOK' \in BOOLEAN
    /\ pc' = "checkpoint"
    /\ UNCHANGED <<inputs, gpures, config, steps, prompt_tokens, num_prompt_tokens,
                   loopv, site, sub, exitStatus, fault, gpuv>>

\* fopen, fread of the Config header, open and mmap of the checkpoint
read_checkpoint ==
    /\ pc = "checkpoint"
    /\ \E r \in {"ok", "checkpoint fopen", "checkpoint fread",
                 "checkpoint open", "checkpoint mmap"} :
         IF r = "ok"
         THEN /\ config' \in Checkpoints
              /\ pc' = "steps"
              /\ UNCHANGED <<fault, exitStatus>>
         ELSE Fail(r) /\ UNCHANGED config
    /\ UNCHANGED <<inputs, gpures, steps, prompt_tokens, num_prompt_tokens, ctxOK,
                   loopv, site, sub, gpuv>>

\* a variant: the textbook clamp to [1, seq_len]
clamp_to_interval(n, seq_len) ==
    IF n < 1 THEN 1 ELSE IF n > seq_len THEN seq_len ELSE n

\* if (steps <= 0 || steps > config.seq_len) steps = config.seq_len;
steps_clamp(n, seq_len) == IF n <= 0 \/ n > seq_len THEN seq_len ELSE n

clamp_steps ==
    /\ pc = "steps"
    /\ steps' = steps_clamp(reqSteps, config.seq_len)
    /\ pc' = "tokenizer"
    /\ UNCHANGED <<inputs, gpures, config, prompt_tokens, num_prompt_tokens, ctxOK,
                   loopv, site, sub, exitStatus, fault, gpuv>>

\* fopen of tokenizer.bin and the fread calls that fill vocab
read_tokenizer ==
    /\ pc = "tokenizer"
    /\ \E r \in {"ok", "tokenizer fopen", "tokenizer fread"} :
         IF r = "ok"
         THEN pc' = "compile" /\ UNCHANGED <<fault, exitStatus>>
         ELSE Fail(r)
    /\ UNCHANGED <<inputs, gpures, setup, loopv, site, sub, gpuv>>

\* createComputeProgram for every field of GPUProgram: a program that does
\* not compile or link is logged and its handle left 0; so is every program
\* when no context is current.  Nothing ends the process.
compile_GPUProgram ==
    /\ pc = "compile"
    /\ programs' = IF ctxOK THEN { p \in Programs : Compiles(p) } ELSE {}
    /\ pc' = "upload"
    /\ UNCHANGED <<inputs, created, deleted, setup, loopv, site, sub, exitStatus,
                   fault, gpuv>>

\* create_GPU_buffer for every weight
upload_weights ==
    /\ pc = "upload"
    /\ created' = IF ctxOK THEN created \cup WeightBufs ELSE created
    /\ pc' = "malloc"
    /\ UNCHANGED <<inputs, programs, deleted, setup, loopv, site, sub, exitStatus,
                   fault, gpuv>>

\* malloc_run_state: every buffer is created without initial data
malloc_run_state ==
    /\ pc = "malloc"
    /\ mem' = IF ctxOK
              THEN [b \in RunStateBufs |->
                      [i \in 0..(buffer_len(config, b) - 1) |-> FreshEl(junk)]]
              ELSE mem
    /\ created' = IF ctxOK THEN created \cup RunStateBufs ELSE created
    /\ pc' = "prompt"
    /\ UNCHANGED <<inputs, programs, deleted, setup, loopv, site, sub, exitStatus, fault, l, redv,
                   bound, lastProg, lastGrid, lastReads, lastWrites, unsynced,
                   sq_insize>>

\* if (prompt != NULL) bpe_encode(...): a byte without a vocabulary entry
\* ends the process with exit(EXIT_FAILURE)
encode_prompt ==
    /\ pc = "prompt"
    /\ IF prompt = NoPrompt
       THEN /\ pc' = "loop"
            /\ UNCHANGED <<prompt_tokens, num_prompt_tokens, fault, exitStatus>>
       ELSE IF \E i \in 1..Len(prompt) : bpe_bytes(prompt)[i] = 0 - 1
            THEN Fail("prompt") /\ UNCHANGED <<prompt_tokens, num_prompt_tokens>>
            ELSE /\ prompt_tokens' = bpe_encode(prompt)
                 /\ num_prompt_tokens' = Len(bpe_encode(prompt))
                 /\ pc' = "loop"
                 /\ UNCHANGED <<fault, exitStatus>>
    /\ UNCHANGED <<inputs, gpures, config, steps, ctxOK, loopv, site, sub, gpuv>>

-----------------------------------------------------------------------------
(* transformer(): the dispatches outside the composites *)

ValidToken(t) == t >= 0 /\ t < config.vocab_size

\* a segmentation fault
Crash == pc' = "crashed" /\ exitStatus' = 139

\* while (pos < steps)
loop_test ==
    /\ pc = "loop"
    /\ IF pos < steps
       THEN pc' = "step" /\ site' = "embed"
       ELSE pc' = "cleanup" /\ site' = "none"
    /\ UNCHANGED <<inputs, gpures, setup, loopv, sub, exitStatus, fault, gpuv>>

\* glBufferSubData(x, &token_embedding_table[token * dim]): a token that is
\* no index of the table makes the host read outside it, which may fault
\* or yield whatever lies there
transformer_embedding ==
    /\ pc = "step" /\ site = "embed"
    /\ \E fine \in (IF ValidToken(token) THEN {TRUE} ELSE BOOLEAN) :
         IF fine
         THEN /\ fwdPos' = Append(fwdPos, pos)
              /\ l' = 0
              /\ IF ctxOK
                 THEN /\ mem' = [mem EXCEPT !["x"] =
                                   [i \in DOMAIN @ |->
                                      [v |-> 0, d |-> ValidToken(token), p |-> pos,
                                       l |-> Never, by |-> "glBufferSubData"]]]
                      /\ lastProg' = "glBufferSubData"
                      /\ lastGrid' = <<0, 0, 0>>
                      /\ lastReads' = {}
                      /\ lastWrites' = { [b |-> "x", i |-> i, ok |-> TRUE] :
                                         i \in DOMAIN mem["x"] }
                 ELSE UNCHANGED <<mem, lastProg, lastGrid, lastReads, lastWrites>>
              /\ Goto(IF config.n_layers > 0 THEN "rms_att" ELSE "rms_final")
              /\ UNCHANGED <<pc, exitStatus>>
         ELSE /\ Crash
              /\ UNCHANGED <<fwdPos, l, mem, lastProg, lastGrid, lastReads,
                             lastWrites, site, sub>>
    /\ UNCHANGED <<inputs, gpures, setup, pos, token, next, out, decision, rng_calls,
                   fault, redv, bound, unsynced, sq_insize>>

MatmulSites == {"mm_q", "mm_k", "mm_v", "mm_o", "mm_w1", "mm_w3", "mm_w2", "mm_cls"}

\* the arguments of the matmul calls of transformer()
MatmulArgs ==
    LET dim == config.dim
        hd == config.hidden_dim
        A(xout, x, w, n, d, wo) ==
            [xout |-> xout, x |-> x, w |-> w, n |-> n, d |-> d,
             x_offset |-> 0, w_offset |-> wo]
    IN  CASE site = "mm_q" -> A("q", "xb", "wq", dim, dim, l * dim * dim)
          [] site = "mm_k" -> A("k", "xb", "wk", dim, dim, l * dim * dim)
          [] site = "mm_v" -> A("v", "xb", "wv", dim, dim, l * dim * dim)
          [] site = "mm_o" -> A("xb2", "xb", "wo", dim, dim, l * dim * dim)
          [] site = "mm_w1" -> A("hb", "xb", "w1", dim, hd, l * dim * hd)
          [] site = "mm_w3" -> A("hb2", "xb", "w3", dim, hd, l * dim * hd)
          [] site = "mm_w2" -> A("xb", "hb", "w2", hd, dim, l * dim * hd)
          [] site = "mm_cls" -> A("logits", "x", "wcls", dim, config.vocab_size, 0)

matmul ==
    /\ pc = "step" /\ site \in MatmulSites
    /\ LET a == MatmulArgs
       IN  glDispatchCompute(<< <<0, a.x>>, <<1, a.w>>, <<2, a.xout>> >>,
                             "shader_matmul",
                             [U0 EXCEPT !.n = a.n, !.x_offset = a.x_offset,
                                        !.w_offset = a.w_offset],
                             a.d, 1, 1)
    /\ Goto(After(site))
    /\ UNCHANGED <<inputs, gpures, setup, loopv, pc, exitStatus, fault, l, redv, sq_insize>>

\* accum(x, xb2) after attention, accum(x, xb) after the ffn, which ends
\* the body of the layer loop
accum ==
    /\ pc = "step" /\ site \in {"acc_att", "acc_ffn"}
    /\ glDispatchCompute(<< <<0, "x">>, <<1, IF site = "acc_att" THEN "xb2" ELSE "xb">> >>,
                         "shader_accum", U0, config.dim, 1, 1)
    /\ l' = IF site = "acc_ffn" THEN l + 1 ELSE l
    /\ Goto(After(site))
    /\ UNCHANGED <<inputs, gpures, setup, loopv, pc, exitStatus, fault, redv, sq_insize>>

\* RoPE: index 2 is bound to q and then to k; index 3 keeps what was bound
positionalEncoding ==
    /\ pc = "step" /\ site = "rope"
    /\ glDispatchCompute(<< <<0, "freq_cis_real">>, <<1, "freq_cis_imag">>,
                            <<2, "q">>, <<2, "k">> >>,
                         "shader_positionalEncoding",
                         [U0 EXCEPT !.pos = pos, !.dim = config.dim,
                                    !.freq_cis_idx_delta = (pos * head_size_of(config)) \div 2,
                                    !.head_size = head_size_of(config)],
                         config.dim \div 2, 1, 1)
    /\ Goto(After(site))
    /\ UNCHANGED <<inputs, gpures, setup, loopv, pc, exitStatus, fault, l, redv, sq_insize>>

\* a variant: every position is saved to slot 0 of its layer
kv_offset_slot0(loff, p) == loff

\* the float offset of slot p of the layer at loff in a cache
kv_offset(loff, p) == loff + p * config.dim

\* glCopyBufferSubData(s->k, s->key_cache, ...) and the same for v.  The
\* first two arguments are binding targets; the call is given buffer names.
\* An implementation either rejects the call or copies as the names say.
kv_cache_write ==
    /\ pc = "step" /\ site = "kv"
    /\ LET off == kv_offset(l * config.seq_len * config.dim, pos)
           dst == off..(off + config.dim - 1)
           copy(c, s) == [i \in DOMAIN mem[c] |->
                            IF i \in dst /\ (i - off) \in DOMAIN mem[s]
                            THEN [mem[s][i - off] EXCEPT !.p = pos, !.l = l,
                                                         !.by = "glCopyBufferSubData"]
                            ELSE mem[c][i]]
       IN  IF ctxOK /\ kvCopies
           THEN /\ mem' = [mem EXCEPT !["key_cache"] = copy("key_cache", "k"),
                                      !["value_cache"] = copy("value_cache", "v")]
                /\ lastProg' = "glCopyBufferSubData"
                /\ lastGrid' = <<0, 0, 0>>
                /\ lastReads' = { [b |-> s, i |-> i, e |-> mem[s][i], ok |-> TRUE] :
                                  s \in {"k", "v"}, i \in 0..(config.dim - 1) }
                /\ lastWrites' = { [b |-> c, i |-> i, ok |-> i \in DOMAIN mem[c]] :
                                   c \in Caches, i \in dst }
           ELSE UNCHANGED <<mem, lastProg, lastGrid, lastReads, lastWrites>>
    /\ Goto(After(site))
    /\ UNCHANGED <<inputs, gpures, setup, loopv, pc, exitStatus, fault, l, redv, bound,
                   unsynced, sq_insize>>

\* the attention scores: glDispatchCompute(n_heads, head_size, 1)
get_query_vector ==
    /\ pc = "step" /\ site = "qk"
    /\ glDispatchCompute(<< <<0, "q">>, <<1, "key_cache">>, <<2, "att">> >>,
                         "shader_transformer_get_query_vector",
                         [U0 EXCEPT !.seq_len = config.seq_len, !.pos = pos,
                                    !.head_size = head_size_of(config),
                                    !.dim = config.dim, !.layer_idx = l],
                         config.n_heads, head_size_of(config), 1)
    /\ Goto(After(site))
    /\ UNCHANGED <<inputs, gpures, setup, loopv, pc, exitStatus, fault, l, redv, sq_insize>>

build_attMat ==
    /\ pc = "step" /\ site = "attmat"
    /\ glDispatchCompute(<< <<0, "value_cache">>, <<1, "att">>, <<2, "mulBuffer_4">> >>,
                         "shader_transformer_build_attMat",
                         [U0 EXCEPT !.seq_len = config.seq_len, !.pos = pos,
                                    !.head_size = head_size_of(config),
                                    !.dim = config.dim, !.layer_idx = l],
                         config.n_heads, head_size_of(config), pos + 1)
    /\ Goto(After(site))
    /\ UNCHANGED <<inputs, gpures, setup, loopv, pc, exitStatus, fault, l, redv, sq_insize>>

silu_and_mulW3 ==
    /\ pc = "step" /\ site = "silu"
    /\ glDispatchCompute(<< <<0, "hb">>, <<1, "hb2">> >>,
                         "shader_transformer_silu_and_mulW3", U0,
                         config.hidden_dim, 1, 1)
    /\ Goto(After(site))
    /\ UNCHANGED <<inputs, gpures, setup, loopv, pc, exitStatus, fault, l, redv, sq_insize>>

-----------------------------------------------------------------------------
(* main: choosing and emitting the next token *)

\* next = prompt_tokens[pos]
forced_token ==
    /\ pc = "step" /\ site = "forced"
    /\ next' = prompt_tokens[pos + 1]
    /\ decision' = {}
    /\ Goto("advance")
    /\ UNCHANGED <<inputs, gpures, setup, pos, token, out, fwdPos, rng_calls, pc,
                   exitStatus, fault, gpuv>>

\* the temperature dispatch on the logits
temperature_scale ==
    /\ pc = "step" /\ site = "temperature"
    /\ glDispatchCompute(<< <<0, "logits">> >>, "shader_temperature", U0,
                         config.vocab_size, 1, 1)
    /\ Goto(After(site))
    /\ UNCHANGED <<inputs, gpures, setup, loopv, pc, exitStatus, fault, l, redv, sq_insize>>

\* the elements a host mapping of the whole logits buffer reads
LogitsRead ==
    { [b |-> "logits", i |-> i, e |-> ReadEl("logits", i)] :
      i \in 0..(config.vocab_size - 1) }

\* the mapped probabilities, in units of 1/Den
Probabilities == [i \in 0..(config.vocab_size - 1) |-> ReadEl("logits", i).v]

\* a variant: the scan stops where the running sum reaches the random number
RECURSIVE cdf_scan_le(_, _, _, _, _, _)
cdf_scan_le(P, i, last, cdf, r, none) ==
    IF i > last THEN none
    ELSE IF r <= cdf + P[i] THEN i
    ELSE cdf_scan_le(P, i + 1, last, cdf + P[i], r, none)

\* for (i = from; i <= last; i++) { cdf += P[i]; if (r < cdf) { res = i; break; } }
\* with res = none before the loop; the position found, or none
RECURSIVE cdf_scan(_, _, _, _, _, _)
cdf_scan(P, i, last, cdf, r, none) ==
    IF i > last THEN none
    ELSE IF r < cdf + P[i] THEN i
    ELSE cdf_scan(P, i + 1, last, cdf + P[i], r, none)

\* sample: n - 1 if the mapping fails (random_f32 is not called then), else
\* the first index whose running sum exceeds the random number, n - 1 if
\* there is none
sample ==
    /\ pc = "step" /\ site = "sample"
    /\ LET n == config.vocab_size
           mapped == ctxOK
       IN  /\ next' \in (IF ~mapped THEN {n - 1}
                         ELSE IF numeric
                         THEN {cdf_scan(Probabilities, 0, n - 1, 0, draw, n - 1)}
                         ELSE 0..(n - 1))
           /\ rng_calls' = IF mapped THEN rng_calls + 1 ELSE rng_calls
           /\ decision' = IF mapped THEN LogitsRead ELSE {}
    /\ Goto("advance")
    /\ UNCHANGED <<inputs, gpures, setup, pos, token, out, fwdPos, pc, exitStatus,
                   fault, gpuv>>

\* qsort(probindex, n, ..., compare): the orders in which the probabilities
\* descend; which of the orders of equal probabilities results is not fixed
SortedOrders(P, n) ==
    { o \in [0..(n - 1) -> 0..(n - 1)] :
        /\ \A i, j \in 0..(n - 1) : i # j => o[i] # o[j]
        /\ \A i, j \in 0..(n - 1) : i < j => P[o[i]] >= P[o[j]] }

\* the truncation loop: <<last_idx, cumulative_prob>>, starting from
\* last_idx = 0; the loop stops at the first position at which the
\* cumulative probability exceeds topp
RECURSIVE topp_truncate(_, _, _, _, _)
topp_truncate(Q, n, i, cumulative_prob, tp) ==
    IF i >= n THEN <<0, cumulative_prob>>
    ELSE IF cumulative_prob + Q[i] > tp THEN <<i, cumulative_prob + Q[i]>>
    ELSE topp_truncate(Q, n, i + 1, cumulative_prob + Q[i], tp)

\* what sample_topp returns for the sorted order o: the sampling loop sets
\* res, and the assignment after the loop replaces it
topp_result(P, n, o, tp, rnd) ==
    LET Q == [i \in 0..(n - 1) |-> P[o[i]]]
        tr == topp_truncate(Q, n, 0, 0, tp)
        last_idx == tr[1]
        r == rnd * tr[2]
        sampled == cdf_scan([i \in 0..(n - 1) |-> Q[i] * Den], 0, last_idx, 0, r, n)
        res_loop == IF sampled = n THEN n - 1 ELSE o[sampled]
        \* res = probindex[last_idx].index, whatever the loop found
        res == o[last_idx]
    IN  res

\* sample_topp: n - 1 if the mapping fails, else probindex[last_idx].index
sample_topp ==
    /\ pc = "step" /\ site = "sample_topp"
    /\ LET n == config.vocab_size
           mapped == ctxOK
       IN  /\ next' \in (IF ~mapped THEN {n - 1}
                         ELSE IF numeric
                         THEN { topp_result(Probabilities, n, o, toppNum, draw) :
                                o \in SortedOrders(Probabilities, n) }
                         ELSE 0..(n - 1))
           /\ rng_calls' = IF mapped THEN rng_calls + 1 ELSE rng_calls
           /\ decision' = IF mapped THEN LogitsRead ELSE {}
    /\ Goto("advance")
    /\ UNCHANGED <<inputs, gpures, setup, pos, token, out, fwdPos, pc, exitStatus,
                   fault, gpuv>>

\* (token == 1 && vocab[next][0] == ' ') ? vocab[next] + 1 : vocab[next]
token_str(tok, nxt) ==
    IF tok = BOS /\ vocab(nxt) # <<>> /\ Head(vocab(nxt)) = " "
    THEN Tail(vocab(nxt)) ELSE vocab(nxt)

\* what printf writes when vocab[next] lies outside the vocab array
Garbage == <<"?">>

\* pos++; if (next == 1) break; printf(token_str); token = next.  A next
\* that is no index of vocab makes vocab[next] a read outside the array:
\* the process faults or prints whatever the stray pointer leads to.
advance ==
    /\ pc = "step" /\ site = "advance"
    /\ pos' = pos + 1
    /\ IF next = BOS
       THEN /\ pc' = "cleanup"
            /\ UNCHANGED <<out, token, exitStatus>>
       ELSE IF ValidToken(next)
            THEN /\ out' = Append(out, token_str(token, next))
                 /\ token' = next
                 /\ pc' = "loop"
                 /\ UNCHANGED exitStatus
            ELSE \E faults \in BOOLEAN :
                   IF faults
                   THEN Crash /\ UNCHANGED <<out, token>>
                   ELSE /\ out' = Append(out, Garbage)
                        /\ token' = next
                        /\ pc' = "loop"
                        /\ UNCHANGED exitStatus
    /\ site' = "none"
    /\ sub' = "none"
    /\ UNCHANGED <<inputs, gpures, setup, next, fwdPos, decision, rng_calls, fault, gpuv>>

\* the glDeleteBuffers calls of free_run_state, in order
free_run_state ==
    <<"x", "xb", "xb2", "hb", "hb2", "q", "k", "v", "att", "logits",
      "key_cache", "value_cache", "mulBuffer_1", "mulBuffer_2", "mulBuffer_3">>

\* the glDeleteBuffers calls of free_gpu_weight, in order
free_gpu_weight ==
    <<"rms_att_weight", "rms_ffn_weight", "wq", "wk", "wv", "wo", "w1", "w2",
      "w3", "rms_final_weight", "freq_cis_real", "freq_cis_imag", "wcls">>

\* printf("\n"), free_run_state, free_gpu_weight, free_gpu_program, the
\* host frees, release_GPUContext, return 0
cleanup ==
    /\ pc = "cleanup"
    /\ deleted' = deleted \o free_run_state \o free_gpu_weight
    /\ programs' = {}
    /\ pc' = "exit"
    /\ exitStatus' = 0
    /\ UNCHANGED <<inputs, created, setup, loopv, site, sub, fault, gpuv>>

Next ==
    \/ parse_args
    \/ check_seed
    \/ create_GPUContext
    \/ read_checkpoint
    \/ clamp_steps
    \/ read_tokenizer
    \/ compile_GPUProgram
    \/ upload_weights
    \/ malloc_run_state
    \/ encode_prompt
    \/ loop_test
    \/ transformer_embedding
    \/ rmsnorm_squares_and_sum
    \/ rmsnorm_sum
    \/ rmsnorm_normalize_and_scale
    \/ matmul
    \/ positionalEncoding
    \/ kv_cache_write
    \/ get_query_vector
    \/ transformer_softmax_input
    \/ softmax_max
    \/ softmax_exp_and_sum
    \/ softmax_sum
    \/ softmax_normalize
    \/ transformer_softmax_output
    \/ build_attMat
    \/ transformer_sum_pass
    \/ transformer_sum_return
    \/ accum
    \/ silu_and_mulW3
    \/ forced_token
    \/ argmax_set_index
    \/ argmax_first
    \/ argmax_pass
    \/ argmax_result
    \/ temperature_scale
    \/ sample
    \/ sample_topp
    \/ advance
    \/ cleanup

Spec == Init /\ [][Next]_vars

-----------------------------------------------------------------------------
(* Kernel runs: one reduction composite, entered with every inner length    *)
(* up to MaxN.  argmax runs track values; its logits are drawn from         *)
(* 0..MaxVal, and the never-written scratch elements hold junk.             *)

KernelSites == {"rms_att", "rms_final", "softmax_logits", "tsm", "tsum", "argmax"}

KernelConfigs(s) ==
    CASE s \in RmsSites -> { Cfg(d, 1, 1, 1, 1) : d \in 1..MaxN }
      [] s = "softmax_logits" -> { Cfg(1, 1, 1, n, 1) : n \in 1..MaxN }
      [] s \in {"tsm", "tsum"} -> { Cfg(2, h, 1, 1, MaxN) : h \in 1..2 }
      [] s = "argmax" -> { Cfg(d, 1, 1, n, MaxSeqLen) : d \in 1..2, n \in 1..MaxN }

InputEl(val) == [v |-> val, d |-> TRUE, p |-> 0, l |-> 0, by |-> "input"]

InitKernel ==
    /\ pc = "step"
    /\ site \in KernelSites
    /\ sub = EntrySub(site)
    /\ config \in KernelConfigs(site)
    /\ numeric = (site = "argmax")
    /\ junk \in (IF numeric THEN 0..MaxVal ELSE {0})
    /\ pos \in (IF site \in {"tsm", "tsum"} THEN 0..(config.seq_len - 1) ELSE {0})
    /\ \E lg \in [0..(config.vocab_size - 1) -> (IF numeric THEN 0..MaxVal ELSE {0})] :
         mem = [b \in RunStateBufs |->
                  [i \in 0..(buffer_len(config, b) - 1) |->
                     IF b = "logits" THEN InputEl(lg[i])
                     ELSE IF b \in {"x", "att"} THEN InputEl(0)
                     ELSE FreshEl(junk)]]
    /\ seed = 1
    /\ temperature = (IF site = "argmax" THEN "zero" ELSE "pos")
    /\ topp = "off"
    /\ reqSteps = config.seq_len
    /\ steps = config.seq_len
    /\ prompt = NoPrompt
    /\ prompt_tokens = <<>>
    /\ num_prompt_tokens = 0
    /\ token = BOS
    /\ next = NoToken
    /\ out = <<>>
    /\ exitStatus = NoExit
    /\ fault = "none"
    /\ l = (IF site \in {"rms_final", "softmax_logits", "argmax"} THEN config.n_layers ELSE 0)
    /\ currentStepSize = 0
    /\ nextStepSize = 0
    /\ currentBuffer = "mulBuffer_1"
    /\ nextBuffer = "mulBuffer_2"
    /\ resBuffer_max = "mulBuffer_1"
    /\ currentBuffer_i = "mulBuffer_2"
    /\ nextBuffer_i = "mulBuffer_4"
    /\ stepSizes = <<>>
    /\ lastLoop = <<>>
    /\ fwdPos = [i \in 1..(pos + 1) |-> i - 1]
    /\ bound = [i \in 0..3 |-> "none"]
    /\ sq_insize = config.dim
    /\ lastProg = "none"
    /\ lastGrid = <<0, 0, 0>>
    /\ lastReads = {}
    /\ lastWrites = {}
    /\ unsynced = {}
    /\ tile = <<>>
    /\ decision = {}
    /\ ctxOK = TRUE
    /\ kvCopies = TRUE
    /\ rng_calls = 0
    /\ draw = 0
    /\ toppNum = 0
    /\ programs = { p \in Programs : Compiles(p) }
    /\ created = RunStateBufs
    /\ deleted = <<>>

NextKernel ==
    \/ rmsnorm_squares_and_sum
    \/ rmsnorm_sum
    \/ rmsnorm_normalize_and_scale
    \/ softmax_max
    \/ softmax_exp_and_sum
    \/ softmax_sum
    \/ softmax_normalize
    \/ transformer_softmax_input
    \/ transformer_softmax_output
    \/ transformer_sum_pass
    \/ transformer_sum_return
    \/ argmax_set_index
    \/ argmax_first
    \/ argmax_pass
    \/ argmax_result

SpecKernel == InitKernel /\ [][NextKernel]_vars

-----------------------------------------------------------------------------
(* Sampling runs: sample or sample_topp, entered with every probability    *)
(* vector of up to MaxProbs entries in units of 1/Den (a sum of 1 is not   *)
(* required of the buffer), every random number and every topp; the        *)
(* mapping of the buffer may fail.                                          *)

InitSample ==
    /\ pc = "step"
    /\ site \in {"sample", "sample_topp"}
    /\ sub = "none"
    /\ config \in { Cfg(1, 1, 1, n, 1) : n \in 1..MaxProbs }
    /\ numeric = TRUE
    /\ junk = 0
    /\ ctxOK \in BOOLEAN
    /\ \E pr \in [0..(config.vocab_size - 1) -> 0..MaxVal] :
         mem = IF ctxOK
               THEN [b \in {"logits"} |-> [i \in 0..(config.vocab_size - 1) |-> InputEl(pr[i])]]
               ELSE [b \in {} |-> <<>>]
    /\ draw \in 0..(Den - 1)
    /\ temperature = "pos"
    /\ topp = (IF site = "sample" THEN "off" ELSE "on")
    /\ toppNum \in (IF site = "sample" THEN {0} ELSE 1..Den)
    /\ seed = 1
    /\ reqSteps = 1
    /\ steps = 1
    /\ prompt = NoPrompt
    /\ prompt_tokens = <<>>
    /\ num_prompt_tokens = 0
    /\ pos = 0
    /\ token = BOS
    /\ next = NoToken
    /\ out = <<>>
    /\ exitStatus = NoExit
    /\ fault = "none"
    /\ l = 1
    /\ currentStepSize = 0
    /\ nextStepSize = 0
    /\ currentBuffer = "mulBuffer_1"
    /\ nextBuffer = "mulBuffer_2"
    /\ resBuffer_max = "mulBuffer_1"
    /\ currentBuffer_i = "mulBuffer_2"
    /\ nextBuffer_i = "mulBuffer_4"
    /\ stepSizes = <<>>
    /\ lastLoop = <<>>
    /\ fwdPos = <<0>>
    /\ bound = [i \in 0..3 |-> "none"]
    /\ sq_insize = 0
    /\ lastProg = "none"
    /\ lastGrid = <<0, 0, 0>>
    /\ lastReads = {}
    /\ lastWrites = {}
    /\ unsynced = {}
    /\ tile = <<>>
    /\ decision = {}
    /\ kvCopies = TRUE
    /\ rng_calls = 0
    /\ programs = IF ctxOK THEN { p \in Programs : Compiles(p) } ELSE {}
    /\ created = IF ctxOK THEN {"logits"} ELSE {}
    /\ deleted = <<>>

NextSample ==
    \/ sample
    \/ sample_topp

SpecSample == InitSample /\ [][NextSample]_vars

-----------------------------------------------------------------------------
(* Reduction runs: the max loop or the sum loop of softmax, entered at the  *)
(* head of a pass with a tile of n_heads rows of every length up to MaxN    *)
(* in the buffer the pass reads; the values are tracked.                    *)

\* the passes a reduction loop makes from length n down to length 1
RECURSIVE Passes(_)
Passes(n) == IF n = 1 THEN 0 ELSE 1 + Passes(NextStep(n))

InitReduce ==
    /\ pc = "step"
    /\ site = "tsm"
    /\ sub \in {"max", "sum"}
    /\ nextStepSize \in 1..MaxN
    /\ currentStepSize = 2 * nextStepSize
    /\ stepSizes = <<currentStepSize, nextStepSize>>
    /\ pos = currentStepSize - 2
    /\ config \in { Cfg(2, h, 1, 1, pos + 1) : h \in 1..2 }
    /\ tile \in [1..(config.n_heads * nextStepSize) -> 0..1]
    \* the max loop has made its first pass; the sum loop starts after the
    \* whole max loop and the exp-and-sum dispatch
    /\ currentBuffer = (IF sub = "max" \/ Passes(currentStepSize) % 2 = 1
                        THEN "mulBuffer_2" ELSE "mulBuffer_1")
    /\ nextBuffer = (IF sub = "sum" THEN "mulBuffer_3"
                     ELSE "mulBuffer_1")
    /\ resBuffer_max = (IF sub = "sum" /\ currentBuffer = "mulBuffer_1"
                        THEN "mulBuffer_2" ELSE "mulBuffer_1")
    /\ numeric = TRUE
    /\ junk \in 0..1
    /\ mem = [b \in RunStateBufs |->
                [i \in 0..(buffer_len(config, b) - 1) |->
                   IF b = nextBuffer /\ i < Len(tile) THEN InputEl(tile[i + 1])
                   ELSE FreshEl(junk)]]
    /\ seed = 1
    /\ temperature = "pos"
    /\ topp = "off"
    /\ reqSteps = config.seq_len
    /\ steps = config.seq_len
    /\ prompt = NoPrompt
    /\ prompt_tokens = <<>>
    /\ num_prompt_tokens = 0
    /\ token = BOS
    /\ next = NoToken
    /\ out = <<>>
    /\ exitStatus = NoExit
    /\ fault = "none"
    /\ l = 0
    /\ currentBuffer_i = "mulBuffer_2"
    /\ nextBuffer_i = "mulBuffer_4"
    /\ lastLoop = <<>>
    /\ fwdPos = [i \in 1..(pos + 1) |-> i - 1]
    /\ bound = [i \in 0..3 |-> "none"]
    /\ sq_insize = config.dim
    /\ lastProg = "none"
    /\ lastGrid = <<0, 0, 0>>
    /\ lastReads = {}
    /\ lastWrites = {}
    /\ unsynced = {}
    /\ decision = {}
    /\ ctxOK = TRUE
    /\ kvCopies = TRUE
    /\ rng_calls = 0
    /\ draw = 0
    /\ toppNum = 0
    /\ programs = { p \in Programs : Compiles(p) }
    /\ created = RunStateBufs
    /\ deleted = <<>>

NextReduce ==
    \/ softmax_max
    \/ softmax_sum

SpecReduce == InitReduce /\ [][NextReduce]_vars

-----------------------------------------------------------------------------
(* C1 *)

logitsV(i) == mem["logits"][i].v

\* the logits have a unique maximum, at index i
UniqueMaxAt(i) ==
    \A j \in DOMAIN mem["logits"] : j # i => logitsV(j) < logitsV(i)

\* argmax has returned
ArgmaxDone == numeric /\ site = "advance" /\ temperature = "zero"

\* C1: whenever the logits have a unique maximum, the value argmax returns
\* is the index of that maximum (what a linear host argmax returns).
C1_ArgmaxReturnsIndexOfMax ==
    ArgmaxDone => \A i \in DOMAIN mem["logits"] : UniqueMaxAt(i) => next = i

-----------------------------------------------------------------------------
(* C2 *)

Ceil2(n) == (n + 1) \div 2

\* a step-size sequence n, ceil(n/2), ... in which no pass follows a step
\* size of 1 (the first pass of a loop with n = 1 excepted: it is made
\* unconditionally and yields step size 1 again)
Halving(s) ==
    /\ \A i \in 1..Len(s) : s[i] >= 1
    /\ \A i \in 1..(Len(s) - 1) : s[i + 1] = Ceil2(s[i])
    /\ \A i \in 2..(Len(s) - 1) : s[i] # 1
    /\ Len(s) <= s[1] + 1

LoopPhases == {"sum", "max", "t", "loop"}

\* C2: the step sizes of every reduction loop are n, ceil(n/2), ... (so the
\* loop makes at most n passes and terminates); a loop is left only when the
\* step size is 1; and each pass dispatches as many invocations per row as
\* its step size, so the last pass leaves one value per row.
C2_ReductionShape ==
    /\ stepSizes # <<>> => Halving(stepSizes)
    /\ lastLoop # <<>> => Halving(lastLoop) /\ lastLoop[Len(lastLoop)] = 1
    /\ (pc = "step" /\ sub \in LoopPhases /\ ctxOK /\ Len(stepSizes) > 1) =>
           /\ nextStepSize = stepSizes[Len(stepSizes)]
           /\ lastGrid[1] = nextStepSize

\* a loop over an odd length above 3 has run to its end
C2_Witness == Len(lastLoop) = 4 /\ lastLoop[1] = 5 /\ lastLoop[4] = 1

-----------------------------------------------------------------------------
(* C3 *)

LayerOf(i) == i \div (config.seq_len * config.dim)
SlotOf(i) == (i % (config.seq_len * config.dim)) \div config.dim

\* C3: a cache element, once written, is never written again, so the slots
\* of all earlier positions keep their contents through every later step;
\* and what step p writes in layer l lies in slot p of layer l.
C3_KVCacheMonotone ==
    [][\A b \in Caches \cap DOMAIN mem : \A i \in DOMAIN mem[b] :
          /\ mem[b][i].p # Never => mem'[b][i] = mem[b][i]
          /\ mem'[b][i].p # Never => /\ SlotOf(i) = mem'[b][i].p
                                     /\ LayerOf(i) = mem'[b][i].l]_vars

\* the third step has saved its key while the slot of the first step still
\* holds what the first step saved
C3_Witness ==
    /\ ctxOK /\ pc = "step" /\ pos = 2 /\ site = "qk" /\ l = 1
    /\ mem["key_cache"][0].p = 0
    /\ mem["value_cache"][0].p = 0
    /\ mem["key_cache"][kv_offset(l * config.seq_len * config.dim, 2)].p = 2

-----------------------------------------------------------------------------
(* C4 *)

\* C4: every cache element a dispatch reads lies in a slot t in 0..pos of
\* the current layer and was written, at step t, before the read.
C4_CacheReadsWritten ==
    \A r \in lastReads :
        r.b \in Caches =>
            /\ r.ok
            /\ LayerOf(r.i) = l
            /\ SlotOf(r.i) \in 0..pos
            /\ r.e.p = SlotOf(r.i)

-----------------------------------------------------------------------------
(* C5 *)

\* C5: every element a token decision reads is determined by the inputs of
\* the run (seed, temperature, top-p, prompt, steps, checkpoint); none stems
\* from an element that was never written.
C5_DecisionsDetermined == \A r \in decision : r.e.d

-----------------------------------------------------------------------------
(* C6 *)

KnownBytes(text) == \A i \in 1..Len(text) : bpe_bytes(text)[i] # 0 - 1

\* C6: a hard failure ends the process with status 1, with no token text
\* written and no forward pass made; seed 0 and a prompt byte without a
\* vocabulary entry are such failures, so no run gets past them.
C6_HardFailuresExitEarly ==
    /\ fault # "none" =>
          /\ pc = "exit" /\ exitStatus = 1
          /\ out = <<>> /\ fwdPos = <<>> /\ pos = 0
    /\ exitStatus = 0 => fault = "none"
    /\ (seed = 0 /\ pc # "seed") => fault = "seed"
    /\ (pc \in {"loop", "step", "cleanup", "crashed"} /\ prompt # NoPrompt) =>
          KnownBytes(prompt)

\* the last of the hard failures: the prompt has a byte the vocabulary lacks
C6_Witness == fault = "prompt" /\ pc = "exit" /\ exitStatus = 1 /\ ctxOK

-----------------------------------------------------------------------------
(* C7 *)

\* the step count has been clamped
Clamped == config.seq_len >= 1 /\ pc # "steps"

\* C7, as the code has it: the step count is the requested value if that
\* lies in 1..seq_len and seq_len otherwise (also for a request below 1);
\* so it always lies in 1..seq_len.
C7_StepsClamp ==
    Clamped =>
        /\ steps = (IF 1 <= reqSteps /\ reqSteps <= config.seq_len
                    THEN reqSteps ELSE config.seq_len)
        /\ 1 <= steps /\ steps <= config.seq_len

\* a request below 1 on a checkpoint with seq_len above 1
C7_Witness == Clamped /\ reqSteps < 1 /\ config.seq_len > 1 /\ steps = config.seq_len

\* C7 as stated: the requested value clamped to [1, seq_len], a request
\* below 1 becoming 1
C7_AsStated ==
    Clamped =>
        /\ 1 <= steps /\ steps <= config.seq_len
        /\ (1 <= reqSteps /\ reqSteps <= config.seq_len) => steps = reqSteps
        /\ reqSteps > config.seq_len => steps = config.seq_len
        /\ reqSteps < 1 => steps = 1

-----------------------------------------------------------------------------
(* C8 *)

\* the token loop has been left
LoopOver == pc \in {"cleanup", "crashed"} \/ (pc = "exit" /\ fault = "none")

\* C8: the forward passes are made with pos = 0, 1, 2, ..., each below
\* steps <= seq_len; a loop that was not stopped by BOS has made exactly
\* steps passes; a stop by BOS emits nothing for that step; never more
\* than steps strings are emitted.
C8_TokenLoop ==
    /\ \A i \in 1..Len(fwdPos) : fwdPos[i] = i - 1 /\ fwdPos[i] < steps
    /\ Len(fwdPos) > 0 => steps <= config.seq_len
    /\ Len(out) <= steps
    /\ Len(out) <= Len(fwdPos)
    /\ LoopOver => IF next = BOS THEN Len(out) < Len(fwdPos)
                   ELSE Len(fwdPos) = steps

-----------------------------------------------------------------------------
(* C9 *)

\* C9: whatever is written for a token is the vocabulary string of next,
\* without its first byte exactly when the token fed to the step was BOS
\* and the string begins with a space.
C9_EmittedText ==
    [][out' # out =>
          /\ ValidToken(next)
          /\ out' = Append(out, IF token = BOS /\ vocab(next) # <<>>
                                   /\ Head(vocab(next)) = " "
                                THEN Tail(vocab(next)) ELSE vocab(next))]_vars

-----------------------------------------------------------------------------
(* C10 *)

\* C10: when sample or sample_topp maps the logits, every entry is a value
\* written by the softmax normalisation, dispatched over one row of
\* vocab_size entries.
C10_LogitsSoftmaxed ==
    (pc = "step" /\ site \in {"sample", "sample_topp"} /\ ctxOK) =>
        /\ \A i \in DOMAIN mem["logits"] :
               mem["logits"][i].by = "shader_softmax_normalize"
        /\ lastProg = "shader_softmax_normalize"
        /\ lastGrid = <<config.vocab_size, 1, 1>>

-----------------------------------------------------------------------------
(* C11 *)

MinOf(S) == CHOOSE x \in S : \A y \in S : x <= y

\* probabilities[0] + ... + probabilities[i]
PrefixSum(i) == SumSeq([j \in 1..(i + 1) |-> Probabilities[j - 1]])

\* sample has returned
SampleDone == numeric /\ site = "advance" /\ topp = "off"

\* the smallest index whose prefix sum exceeds the draw; n - 1 if there is
\* none or the buffer could not be mapped
SampleExpected ==
    LET n == config.vocab_size
        hits == { i \in 0..(n - 1) : PrefixSum(i) > draw }
    IN  IF ~ctxOK \/ hits = {} THEN n - 1 ELSE MinOf(hits)

\* C11, as the code has it: sample returns the smallest index whose prefix
\* sum exceeds the draw, n - 1 if there is none or the buffer cannot be
\* mapped; the result lies in 0..n-1; the random number generator is
\* advanced once if the buffer is mapped and not at all if it is not.
C11_Sample ==
    SampleDone =>
        /\ next = SampleExpected
        /\ next \in 0..(config.vocab_size - 1)
        /\ rng_calls = (IF ctxOK THEN 1 ELSE 0)

\* sample has passed over two entries and returned the index of the third,
\* whose prefix sum is the first to exceed the draw
C11_Witness ==
    /\ SampleDone /\ ctxOK /\ config.vocab_size = 3
    /\ next = 2 /\ PrefixSum(1) <= draw /\ PrefixSum(2) > draw
    /\ rng_calls = 1

\* C11 as stated: the random number generator is advanced exactly once in
\* every call, also when the buffer cannot be mapped
C11_AsStated ==
    SampleDone =>
        /\ next = SampleExpected
        /\ next \in 0..(config.vocab_size - 1)
        /\ rng_calls = 1

-----------------------------------------------------------------------------
(* C12 *)

\* sample_topp has returned, the buffer mapped
ToppDone == numeric /\ site = "advance" /\ topp = "on" /\ ctxOK

\* the cumulative mass of the sorted positions 0..i under the order o
Mass(o, i) == SumSeq([j \in 1..(i + 1) |-> Probabilities[o[j - 1]]])

\* the sorted positions whose cumulative mass exceeds topp
Exceeding(o) == { i \in DOMAIN o : Mass(o, i) > toppNum }

\* what the nucleus sampling described returns under the order o: the entry
\* at the first position up to last_idx whose running mass exceeds the draw
\* r * cum, the entry at last_idx if there is none
ToppExpected(o) ==
    LET last_idx == MinOf(Exceeding(o))
        cum == Mass(o, last_idx)
        found == { i \in 0..last_idx : Mass(o, i) * Den > draw * cum }
    IN  IF found = {} THEN o[last_idx] ELSE o[MinOf(found)]

\* C12: where some sorted prefix exceeds topp, sample_topp returns the entry
\* at the first sorted position, up to last_idx, whose running mass exceeds
\* the draw r * cum, and the entry at last_idx only if there is none.
C12_ToppSamples ==
    ToppDone =>
        \E o \in SortedOrders(Probabilities, config.vocab_size) :
            Exceeding(o) # {} => next = ToppExpected(o)

-----------------------------------------------------------------------------
(* C13 *)

\* compile_GPUProgram has returned
CompileRan ==
    \/ pc \in {"upload", "malloc", "prompt", "loop", "step", "cleanup", "crashed"}
    \/ pc = "exit" /\ fault \in {"none", "prompt"}

\* C13: once a compute program has failed to compile or link (in a context
\* that was acquired), the process has exited: no buffer was created, no
\* forward pass was made and no dispatch was issued.
C13_CompileFailureFatal ==
    (CompileRan /\ ctxOK /\ \E p \in Programs : ~Compiles(p)) =>
        /\ pc = "exit"
        /\ created = {}
        /\ fwdPos = <<>>
        /\ lastProg = "none"

-----------------------------------------------------------------------------
(* C14 *)

\* create_GPUContext has returned without a current context
ContextFailed ==
    ~ctxOK /\ pc \notin {"args", "seed", "context"} /\ fault \notin {"usage", "seed"}

\* C14: programs, buffers and dispatches exist only while a context is
\* current; and once the acquisition of the context has failed, the engine
\* has returned: nothing was compiled, no buffer created, no forward pass
\* made and no token emitted.
C14_ContextGuardsGPU ==
    /\ (programs # {} \/ created # {} \/ lastProg # "none") => ctxOK
    /\ ContextFailed =>
          /\ pc = "exit"
          /\ programs = {} /\ created = {}
          /\ fwdPos = <<>> /\ out = <<>>

-----------------------------------------------------------------------------
(* C15 *)

\* C15: each scratch buffer has max(dim * seq_len, vocab_size) *
\* sizeof(float) bytes, so it holds at least vocab_size floats and at least
\* the dim * (pos + 1) floats of the attention tile, and no dispatch reads or
\* writes a scratch buffer outside its bounds.
C15_ScratchSize ==
    \A b \in Scratch \cap DOMAIN mem :
        /\ mulBuffer_len(config) =
               Max2(config.dim * config.seq_len, config.vocab_size) * SizeofFloat
        /\ Cardinality(DOMAIN mem[b]) >= config.vocab_size
        /\ Cardinality(DOMAIN mem[b]) >= config.dim * (pos + 1)
        /\ \A r \in lastReads \cup lastWrites : r.b = b => r.ok

-----------------------------------------------------------------------------
(* C16 *)

\* how often glDeleteBuffers was called on b
Deletions(b) == Cardinality({ i \in 1..Len(deleted) : deleted[i] = b })

\* C16: when a normal run has ended, every buffer that was created has been
\* deleted exactly once.
C16_AllBuffersDeleted ==
    (pc = "exit" /\ exitStatus = 0) => \A b \in created : Deletions(b) = 1

-----------------------------------------------------------------------------
(* C17 *)

Heads == 0..(config.n_heads - 1)

\* the elements of the tile M: one for every head h, every i below
\* head_size and every t in 0..pos
AttMatIndexes ==
    { h * (pos + 1) * head_size_of(config) + i * (pos + 1) + t :
        h \in Heads, i \in 0..(head_size_of(config) - 1), t \in 0..pos }

\* C17: build_attMat writes every triple (h, i, t) to its own element of M
\* in mulBuffer_4; and when transformer_sum has returned, at every pos from
\* 0 on, every element of xb was written by the reduction over t of this
\* step and layer.
C17_WeightedSum ==
    /\ (pc = "step" /\ site = "tsum" /\ sub = "t0" /\ ctxOK) =>
          /\ lastProg = "shader_transformer_build_attMat"
          /\ \A w \in lastWrites : w.b = "mulBuffer_4" /\ w.ok
          /\ { w.i : w \in lastWrites } = AttMatIndexes
    /\ (pc = "step" /\ site = "mm_o" /\ ctxOK) =>
          \A i \in DOMAIN mem["xb"] :
              /\ mem["xb"][i].by = "shader_sum"
              /\ mem["xb"][i].p = pos
              /\ mem["xb"][i].l = l

-----------------------------------------------------------------------------
(* C18 *)

\* att[h * seq_len + t] and S4[h * (pos + 1) + t] for every head h and every
\* t in 0..pos
AttIndexes == { h * config.seq_len + t : h \in Heads, t \in 0..pos }
TileIndexes == { h * (pos + 1) + t : h \in Heads, t \in 0..pos }

Loaded == { <<r.b, r.i>> : r \in lastReads }
Stored == { <<w.b, w.i>> : w \in lastWrites }

\* C18: the gather reads exactly att[h*seq_len + t] and writes exactly
\* S4[h*(pos+1) + t] for h below n_heads and t in 0..pos; the softmax
\* between runs over n_heads rows of length pos + 1; the scatter reads the
\* same elements of S4 and writes the same elements of att.
C18_AttentionSoftmaxTile ==
    /\ (pc = "step" /\ site = "tsm" /\ sub = "max0" /\ ctxOK) =>
          /\ lastProg = "shader_transformer_softmax_input"
          /\ Loaded = {"att"} \X AttIndexes
          /\ Stored = {"mulBuffer_4"} \X TileIndexes
    /\ (pc = "step" /\ site = "tsm" /\ sub \in {"max", "sum"} /\ ctxOK) =>
          /\ stepSizes[1] = pos + 1
          /\ lastGrid[2] = config.n_heads
    /\ (pc = "step" /\ site = "attmat" /\ ctxOK) =>
          /\ lastProg = "shader_transformer_softmax_output"
          /\ Loaded = {"mulBuffer_4"} \X TileIndexes
          /\ Stored = {"att"} \X AttIndexes

-----------------------------------------------------------------------------
(* C19 *)

\* C19: the attention-score dispatch writes exactly att[h*seq_len + t] for
\* every head h and every key position t in 0..pos, and the key-cache
\* elements it reads are those of the slots 0..pos of layer l.
C19_AttentionScores ==
    (pc = "step" /\ site = "tsm" /\ sub = "in" /\ ctxOK) =>
        /\ lastProg = "shader_transformer_get_query_vector"
        /\ Stored = {"att"} \X AttIndexes
        /\ \A r \in lastReads : r.b = "key_cache" => r.ok /\ LayerOf(r.i) = l
        /\ { SlotOf(r.i) : r \in { x \in lastReads : x.b = "key_cache" } } = 0..pos

-----------------------------------------------------------------------------
(* C20 *)

\* C20: the first pass of the max reduction of softmax(x, n, m) reads
\* elements of x only; and when the max reduction has ended, the element of
\* every row in the max result buffer was written by the max reduction of
\* this call.
C20_SoftmaxMaxReadsX ==
    /\ (pc = "step" /\ site \in SoftmaxSites /\ sub = "max" /\ Len(stepSizes) = 2
        /\ ctxOK) =>
          /\ lastProg = "shader_max"
          /\ \A r \in lastReads : r.b = SoftmaxArgs.x
    /\ (pc = "step" /\ site \in SoftmaxSites /\ sub = "sum" /\ Len(stepSizes) = 2
        /\ ctxOK) =>
          \A row \in 0..(SoftmaxArgs.size_y - 1) :
              /\ ReadEl(resBuffer_max, row).by = "shader_max"
              /\ ReadEl(resBuffer_max, row).p = pos
              /\ ReadEl(resBuffer_max, row).l = l

-----------------------------------------------------------------------------
(* C21 *)

\* the indexes of buffer b the last dispatch loaded from, and stored to
ReadsOf(b) == { r.i : r \in { x \in lastReads : x.b = b } }
WritesOf(b) == { w.i : w \in { x \in lastWrites : x.b = b } }

\* the rows of the running softmax call
SoftmaxRows == 0..(SoftmaxArgs.size_y - 1)

\* C21: in a softmax over m >= 1 rows of length n, exp_and_sum loads for the
\* rows 0..m-1 the maximum of each row (element idy of the max result) and
\* every element of every row (the odd sibling whenever 2*idx+1 < n), and
\* normalize loads for the rows 0..m-1 the sum of each row (element idy of
\* the sum result); no row uses the maximum or the sum of another row.
C21_SoftmaxPerRow ==
    /\ (pc = "step" /\ site \in SoftmaxSites /\ sub = "sum" /\ ctxOK
        /\ lastProg = "shader_softmax_exp_and_sum" /\ SoftmaxArgs.size_y >= 1) =>
          /\ ReadsOf(resBuffer_max) = SoftmaxRows
          /\ ReadsOf(SoftmaxArgs.x) =
                 0..(SoftmaxArgs.size_y * SoftmaxArgs.size_x - 1)
    /\ (pc = "step" /\ site = "tsm" /\ sub = "out" /\ ctxOK
        /\ SoftmaxArgs.size_y >= 1) =>
          /\ lastProg = "shader_softmax_normalize"
          /\ ReadsOf(nextBuffer) = SoftmaxRows

-----------------------------------------------------------------------------
(* C22 *)

\* the buffers the last dispatch stored to
WrittenBufs == { w.b : w \in lastWrites }

\* C22: at the RoPE dispatch of every layer storage binding 2 holds q and
\* storage binding 3 holds k; after it every element of q and of k was
\* written by the rotation of this step and layer, and the dispatch stored
\* to no other buffer (xb in particular).
C22_RopeBindings ==
    (pc = "step" /\ site = "kv" /\ ctxOK) =>
        /\ lastProg = "shader_positionalEncoding"
        /\ bound[2] = "q"
        /\ bound[3] = "k"
        /\ WrittenBufs = {"q", "k"}
        /\ \A b \in {"q", "k"} : \A i \in DOMAIN mem[b] :
               /\ mem[b][i].by = "shader_positionalEncoding"
               /\ mem[b][i].p = pos
               /\ mem[b][i].l = l

-----------------------------------------------------------------------------
(* C23 *)

\* the buffers whose values are not meant to outlive a layer
LayerLocal == {"xb", "xb2", "hb", "hb2", "q", "k", "v", "att"} \cup Scratch

\* a dispatch of layer l of the running step has been issued
InLayer ==
    /\ pc = "step" /\ ctxOK
    /\ l >= 1 /\ l < config.n_layers
    /\ ~(site = "rms_att" /\ sub = "sq")

\* C23: in every layer l >= 1 of every step, each element a dispatch reads
\* from xb, xb2, hb, hb2, q, k, v, att or a scratch buffer was written
\* earlier in the same layer of the same step; only x, the weights and the
\* caches carry values from one layer to the next.
C23_OnlyXCrossesLayers ==
    InLayer =>
        \A r \in lastReads :
            r.b \in LayerLocal => r.ok /\ r.e.p = pos /\ r.e.l = l

-----------------------------------------------------------------------------
(* C24 *)

\* C24: every compute dispatch is followed by a shader-storage memory
\* barrier before the next dispatch is issued: wherever the program stands
\* between two GL calls, no buffer holds a shader write that no barrier has
\* followed, so no dispatch loads from such a buffer.
C24_BarrierAfterDispatch == unsynced = {}

\* the sum pass of rmsnorm has loaded from mulBuffer_2 what the dispatch
\* before it, squares-and-sum, stored there
C24_Witness ==
    /\ ctxOK /\ pc = "step" /\ site \in RmsSites /\ sub = "sum"
    /\ lastProg = "shader_sum"
    /\ \E r \in lastReads : /\ r.b = "mulBuffer_2"
                            /\ r.e.by = "shader_rmsnorm_squares_and_sum"
                            /\ r.e.p = pos
    /\ unsynced = {}

-----------------------------------------------------------------------------
(* C25 *)

\* row idy of the tile the reduction run started from; its length is the
\* step size the run was entered with
TileRow(idy) == [c \in 1..stepSizes[2] |-> tile[idy * stepSizes[2] + c]]

\* a reduction loop over the tile has run down to length 1
ReduceDone == tile # <<>> /\ pc = "step" /\ nextStepSize = 1

\* C25: iterating the sum pass (the max pass) on a tile of m rows of length
\* n, from length n down to length 1, leaves at index idy of the last
\* output the sum (the maximum) of the n elements of row idy, for every
\* m >= 1 and n >= 1.
C25_ReduceRows ==
    ReduceDone =>
        \A idy \in 0..(config.n_heads - 1) :
            mem[nextBuffer][idy].v = (IF sub = "sum" THEN SumSeq(TileRow(idy))
                                      ELSE MaxSeq(TileRow(idy)))

\* the sum loop has reduced two rows of five elements, with different sums,
\* in three passes
C25_Witness ==
    /\ ReduceDone /\ sub = "sum" /\ config.n_heads = 2
    /\ stepSizes = <<10, 5, 3, 2, 1>>
    /\ SumSeq(TileRow(0)) = 2 /\ SumSeq(TileRow(1)) = 5
    /\ mem[nextBuffer][0].v = 2 /\ mem[nextBuffer][1].v = 5
    /\ lastProg = "shader_sum"

-----------------------------------------------------------------------------
(* C26 *)

\* C26: the SwiGLU dispatch loads, for every i below hidden_dim, the gate
\* operand hb[i] and the multiplicand hb2[i], two different buffers, and
\* stores hb[i] only; hb2 is left as the w3 projection wrote it.
C26_SwiGLUOperands ==
    (pc = "step" /\ site = "mm_w2" /\ ctxOK) =>
        /\ lastProg = "shader_transformer_silu_and_mulW3"
        /\ ReadsOf("hb") = 0..(config.hidden_dim - 1)
        /\ ReadsOf("hb2") = 0..(config.hidden_dim - 1)
        /\ Stored = {"hb"} \X (0..(config.hidden_dim - 1))
        /\ \A i \in DOMAIN mem["hb2"] : mem["hb2"][i].by = "shader_matmul"

-----------------------------------------------------------------------------
(* C27 *)

\* the buffers the last dispatch loaded from
LoadedBufs == { r.b : r \in lastReads }

\* the programs of the passes of the iterated reductions
PassProgs == {"shader_rmsnorm_squares_and_sum", "shader_sum", "shader_max",
              "shader_softmax_exp_and_sum"}

\* the programs the composites dispatch
CompositeProgs ==
    PassProgs \cup {"shader_rmsnorm_normalize_and_scale",
                    "shader_rmsnorm_normalize_and_scale_currentPos",
                    "shader_softmax_normalize", "shader_argmax_set_index",
                    "shader_transformer_softmax_input",
                    "shader_transformer_softmax_output"}

\* the dispatches documented as in place
InPlaceProgs == {"shader_rmsnorm_normalize_and_scale_currentPos",
                 "shader_softmax_normalize"}

\* C27: in every pass of every iterated reduction the buffers bound as
\* input differ from the buffer bound as output, and the pass loads from no
\* buffer it stores to, whatever the length and the number of passes; of
\* the dispatches of the composites only the in-place rmsnorm scale and the
\* softmax normalize load from a buffer they store to; the value and index
\* buffers an argmax pass binds as input and as output are four buffers.
C27_ReductionNoAlias ==
    (pc = "step" /\ ctxOK) =>
        /\ lastProg \in PassProgs \ {"shader_softmax_exp_and_sum"} =>
               bound[0] # bound[1]
        /\ lastProg = "shader_softmax_exp_and_sum" =>
               bound[2] \notin {bound[0], bound[1]}
        /\ lastProg \in CompositeProgs \ InPlaceProgs =>
               LoadedBufs \cap WrittenBufs = {}
        /\ (site = "argmax" /\ sub = "loop") =>
               Cardinality({ bound[i] : i \in 0..3 }) = 4

\* the value-sum reduction over five positions has made its third pass, the
\* one that ends in xb, after two passes between mulBuffer_4 and mulBuffer_1
C27_Witness ==
    /\ pc = "step" /\ ctxOK /\ site = "tsum" /\ sub = "t"
    /\ stepSizes = <<5, 3, 2, 1>>
    /\ lastProg = "shader_sum"
    /\ bound[0] = "mulBuffer_4" /\ bound[1] = "xb"
    /\ LoadedBufs = {"mulBuffer_4"} /\ WrittenBufs = {"xb"}

-----------------------------------------------------------------------------
(* C28 *)

\* C28: the token a forward pass is fed, and the value of next that a forced
\* prompt token, argmax, sample or sample_topp has produced, before it is
\* printed and made the next token, is an index of the vocabulary.
C28_TokensInVocabulary ==
    /\ (pc = "step" /\ site = "advance") => ValidToken(next)
    /\ (pc = "step" /\ site = "embed") => ValidToken(token)

-----------------------------------------------------------------------------
(* C29 *)

\* the programs that store to att
AttWriters == {"shader_transformer_get_query_vector",
               "shader_transformer_softmax_output"}

\* the stores of the last dispatch, each with its invocation, when that
\* dispatch was one of the two that store to att
AttStores ==
    Stores(lastProg,
           [U0 EXCEPT !.seq_len = config.seq_len,
                      !.pos = IF lastProg = "shader_transformer_softmax_output"
                              THEN pos + 1 ELSE pos,
                      !.head_size = head_size_of(config),
                      !.dim = config.dim, !.layer_idx = l],
           lastGrid[1], lastGrid[2], lastGrid[3])

\* C29: every index the attention-score dispatch and the scatter dispatch
\* of the attention softmax store to lies in att, i.e. in
\* 0..n_heads*seq_len-1, and in the row h*seq_len..(h+1)*seq_len-1 of the
\* head h of the invocation that stores it.
C29_AttWritesInRow ==
    (pc = "step" /\ ctxOK /\ lastProg \in AttWriters) =>
        /\ \A w \in lastWrites :
               w.b = "att" /\ w.ok /\ w.i \in 0..(config.n_heads * config.seq_len - 1)
        /\ \A a \in AttStores :
               /\ a.g[1] \in Heads
               /\ a.s.wi \in (a.g[1] * config.seq_len)..((a.g[1] + 1) * config.seq_len - 1)

-----------------------------------------------------------------------------
(* C30 *)

\* of the two scratch buffers the max reduction alternates between, the one
\* that does not hold its result
OtherMaxBuffer ==
    IF resBuffer_max = "mulBuffer_1" THEN "mulBuffer_2" ELSE "mulBuffer_1"

\* C30: from the end of the max reduction of a softmax call up to its
\* normalize dispatch, no dispatch has the buffer of the max result bound as
\* its output or stores to it: exp_and_sum and every pass of the sum
\* reduction store to mulBuffer_3 or to the other of the two max buffers
\* only, inside the buffer, and the maximum of every row is still what the
\* max reduction wrote, for every row length.
C30_MaxResultKept ==
    (pc = "step" /\ site \in SoftmaxSites /\ sub = "sum" /\ ctxOK) =>
        /\ resBuffer_max \in {"mulBuffer_1", "mulBuffer_2"}
        /\ lastProg \in {"shader_softmax_exp_and_sum", "shader_sum"}
        /\ bound[IF lastProg = "shader_sum" THEN 1 ELSE 2]
               \in {"mulBuffer_3", OtherMaxBuffer}
        /\ WrittenBufs \subseteq {"mulBuffer_3", OtherMaxBuffer}
        /\ \A w \in lastWrites : w.ok
        /\ nextBuffer # resBuffer_max
        /\ \A row \in SoftmaxRows :
               /\ mem[resBuffer_max][row].by = "shader_max"
               /\ mem[resBuffer_max][row].p = pos

\* the first pass of the sum reduction over rows of length 6 has stored to
\* mulBuffer_2 while mulBuffer_1 holds the maxima
C30_Witness ==
    /\ pc = "step" /\ site = "tsm" /\ sub = "sum" /\ ctxOK
    /\ stepSizes = <<6, 3, 2>>
    /\ lastProg = "shader_sum"
    /\ resBuffer_max = "mulBuffer_1"
    /\ WrittenBufs = {"mulBuffer_2"}
    /\ mem["mulBuffer_1"][0].by = "shader_max"

====
